---- MODULE Spec2Model ----
(***************************************************************************)
(* Blueprint templating engine of studio: tokenization of argument words   *)
(* (parse.ts), schema derivation (schema.ts) and rendering of a parameter  *)
(* map into an argument vector (render.ts).                                *)
(*                                                                         *)
(* A JavaScript string is modelled as a sequence of one-character strings, *)
(* with 0-based positions as in the source.  An object (a parameter map,  *)
(* the properties of a schema) is modelled as the sequence of its entries  *)
(* in the order Object.entries lists them: array-index keys first, in      *)
(* ascending order, then the other keys in the order of their creation.    *)
(***************************************************************************)
EXTENDS Integers, Sequences, FiniteSets, TLC

(***************************************************************************)
(* String primitives of JavaScript used by the engine                      *)
(***************************************************************************)

\* s.slice(a, b) for 0 <= a, 0 <= b
Slice(s, a, b) ==
  IF b > Len(s) THEN SubSeq(s, a + 1, Len(s)) ELSE SubSeq(s, a + 1, b)

\* s.slice(a)
SliceFrom(s, a) == SubSeq(s, a + 1, Len(s))

\* s.startsWith(p)
StartsWith(s, p) == Len(s) >= Len(p) /\ SubSeq(s, 1, Len(p)) = p

\* s.endsWith(p)
EndsWith(s, p) ==
  Len(s) >= Len(p) /\ SubSeq(s, Len(s) - Len(p) + 1, Len(s)) = p

\* s.indexOf(p): 0-based offset of the first occurrence, -1 when there is none
IndexOf(s, p) ==
  LET hits == {i \in 0..(Len(s) - Len(p)) : SubSeq(s, i + 1, i + Len(p)) = p}
  IN IF hits = {} THEN -1 ELSE CHOOSE i \in hits : \A j \in hits : i <= j

\* s.includes(c) for a one-character c
Includes(s, c) == \E i \in 1..Len(s) : s[i] = c

\* the characters String.prototype.trim removes: WhiteSpace and LineTerminator
\* of ECMAScript (TAB, VT, FF, SP, NBSP, ZWNBSP, the Unicode Zs category,
\* LF, CR, LS, PS).  A character that cannot be written in a string of this
\* module is represented by its \u escape, taken as one character.
WhiteSpace ==
  { " ", "\t", "\n", "\r", "\f", "", " ", "﻿", " ",
    "\\u2000", "\\u2001", "\\u2002", "\\u2003", "\\u2004", "\\u2005",
    "\\u2006", "\\u2007", "\\u2008", "\\u2009", "\\u200a", "\\u2028",
    "\\u2029", "\\u202f", "\\u205f", "\\u3000" }

\* s.trim()
Trim(s) ==
  LET keep == {i \in 1..Len(s) : s[i] \notin WhiteSpace}
  IN IF keep = {} THEN <<>>
     ELSE SubSeq(s, CHOOSE i \in keep : \A j \in keep : i <= j,
                    CHOOSE i \in keep : \A j \in keep : i >= j)

\* s.replace(/-/g, "_") and s.replace(/_/g, "-")
ReplaceAll(s, from, to) == [i \in 1..Len(s) |-> IF s[i] = from THEN to ELSE s[i]]

\* s.replace(/^-+/, "")
StripLeadingDashes(s) ==
  LET keep == {i \in 1..Len(s) : s[i] # "-"}
  IN IF keep = {} THEN <<>>
     ELSE SubSeq(s, CHOOSE i \in keep : \A j \in keep : i <= j, Len(s))

DigitChars == <<"0", "1", "2", "3", "4", "5", "6", "7", "8", "9">>

\* parts.join("") over a sequence of strings
RECURSIVE Join(_)
Join(parts) == IF parts = <<>> THEN <<>> ELSE Head(parts) \o Join(Tail(parts))

\* concatenation of a sequence of lists (result.push(...wordResult) in a loop)
RECURSIVE Flatten(_)
Flatten(lists) == IF lists = <<>> THEN <<>> ELSE Head(lists) \o Flatten(Tail(lists))

(***************************************************************************)
(* Tokens (types.ts)                                                       *)
(***************************************************************************)

TextToken(value) ==
  [kind |-> "text", value |-> value, name |-> <<>>, description |-> <<>>,
   required |-> FALSE, isArray |-> FALSE, originalFlag |-> <<>>]

FieldToken(name, description, required, isArray, originalFlag) ==
  [kind |-> "field", value |-> <<>>, name |-> name, description |-> description,
   required |-> required, isArray |-> isArray, originalFlag |-> originalFlag]

\* the value parseField returns for "not a valid field"
NullToken ==
  [kind |-> "null", value |-> <<>>, name |-> <<>>, description |-> <<>>,
   required |-> FALSE, isArray |-> FALSE, originalFlag |-> <<>>]

IsText(token) == token.kind = "text"
IsField(token) == token.kind = "field"

(***************************************************************************)
(* Field parser and tokenizer (parse.ts)                                   *)
(***************************************************************************)

EnableText == <<"E", "n", "a", "b", "l", "e", " ">>
FlagText == <<" ", "f", "l", "a", "g">>
Dots == <<".", ".", ".">>

\* parseField, after the delimiters are removed
ParseContent(content, required) ==
  LET hash == IndexOf(content, <<"#">>)
      part0 == IF hash = -1 THEN content ELSE Slice(content, 0, hash)
      name0 == Trim(part0)
      desc0 == IF hash = -1 THEN <<>> ELSE Trim(SliceFrom(content, hash + 1))
      isArray == EndsWith(name0, Dots)
      name1 == IF isArray THEN Trim(Slice(name0, 0, Len(name0) - 3)) ELSE name0
      isFlag == ~required /\ StartsWith(name1, <<"-">>)
      originalFlag == IF isFlag THEN name1 ELSE <<>>
      name == IF isFlag THEN StripLeadingDashes(name1) ELSE name1
      description == IF isFlag /\ desc0 = <<>>
                     THEN EnableText \o originalFlag \o FlagText
                     ELSE desc0
  IN IF name0 = <<>> THEN NullToken
     ELSE FieldToken(name, description, required, isArray, originalFlag)

\* mutant: a single-brace placeholder is read as an optional field
parseFieldSingleOptional(field) ==
  IF StartsWith(field, <<"{", "{">>) /\ EndsWith(field, <<"}", "}">>)
    THEN ParseContent(Slice(field, 2, Len(field) - 2), TRUE)
  ELSE IF StartsWith(field, <<"{">>) /\ EndsWith(field, <<"}">>)
    THEN ParseContent(Slice(field, 1, Len(field) - 1), FALSE)
  ELSE IF StartsWith(field, <<"[">>) /\ EndsWith(field, <<"]">>)
    THEN ParseContent(Slice(field, 1, Len(field) - 1), FALSE)
  ELSE NullToken

parseField(field) ==
  IF StartsWith(field, <<"{", "{">>) /\ EndsWith(field, <<"}", "}">>)
    THEN ParseContent(Slice(field, 2, Len(field) - 2), TRUE)
  ELSE IF StartsWith(field, <<"{">>) /\ EndsWith(field, <<"}">>)
    THEN ParseContent(Slice(field, 1, Len(field) - 1), TRUE)
  ELSE IF StartsWith(field, <<"[">>) /\ EndsWith(field, <<"]">>)
    THEN ParseContent(Slice(field, 1, Len(field) - 1), FALSE)
  ELSE NullToken

NoMatch == [found |-> FALSE, start |-> -1, end |-> -1, type |-> "",
            endMarker |-> <<>>, markerLength |-> 0]

\* mutant: when { and {{ start at the same offset the single brace is kept
CandidatesSinglePreferred(remaining) ==
  LET startDouble0 == IndexOf(remaining, <<"{", "{">>)
      startSingle == IndexOf(remaining, <<"{">>)
      startOptional == IndexOf(remaining, <<"[">>)
      startDouble == IF startSingle # -1 /\ startDouble0 # -1
                        /\ startSingle = startDouble0
                     THEN -1 ELSE startDouble0
  IN << [idx |-> startDouble, typ |-> "required_double", end |-> <<"}", "}">>, len |-> 2],
        [idx |-> startSingle, typ |-> "required_single", end |-> <<"}">>, len |-> 1],
        [idx |-> startOptional, typ |-> "optional", end |-> <<"]">>, len |-> 1] >>

\* the candidate list of findNextTemplate, in its order
Candidates(remaining) ==
  LET startDouble == IndexOf(remaining, <<"{", "{">>)
      startSingle0 == IndexOf(remaining, <<"{">>)
      startOptional == IndexOf(remaining, <<"[">>)
      startSingle == IF startSingle0 # -1 /\ startDouble # -1
                        /\ startSingle0 = startDouble
                     THEN -1 ELSE startSingle0
  IN << [idx |-> startDouble, typ |-> "required_double", end |-> <<"}", "}">>, len |-> 2],
        [idx |-> startSingle, typ |-> "required_single", end |-> <<"}">>, len |-> 1],
        [idx |-> startOptional, typ |-> "optional", end |-> <<"]">>, len |-> 1] >>

\* the loop over the candidates: the first one with the smallest offset
ChooseCandidate(cands) ==
  LET live == {i \in 1..Len(cands) : cands[i].idx # -1}
  IN IF live = {} THEN 0
     ELSE CHOOSE i \in live :
            \A j \in live : cands[i].idx < cands[j].idx
                            \/ (cands[i].idx = cands[j].idx /\ i <= j)

findNextTemplate(word, startPos) ==
  LET remaining == SliceFrom(word, startPos)
      cands == Candidates(remaining)
      c == ChooseCandidate(cands)
  IN IF c = 0 THEN NoMatch
     ELSE LET nextStart == cands[c].idx
              endIndex == IndexOf(SliceFrom(remaining, nextStart), cands[c].end)
          IN IF endIndex = -1 THEN NoMatch
             ELSE [found |-> TRUE,
                   start |-> startPos + nextStart,
                   end |-> startPos + nextStart + endIndex + cands[c].len,
                   type |-> cands[c].typ,
                   endMarker |-> cands[c].end,
                   markerLength |-> cands[c].len]

\* if (template.start > pos) tokens.push({ type: "text", value: word.slice(pos, template.start) })
PushBefore(word, pos, tokens, t) ==
  IF t.start > pos THEN Append(tokens, TextToken(Slice(word, pos, t.start))) ELSE tokens

\* mutant: a span parseField rejects is dropped
PushTemplateDropped(tokens, templateText, token) ==
  IF token # NullToken THEN Append(tokens, token) ELSE tokens

\* tokens.push(token) when parseField accepts the template text, else the text itself
PushTemplate(tokens, templateText, token) ==
  IF token # NullToken THEN Append(tokens, token)
  ELSE Append(tokens, TextToken(templateText))

\* the while loop of tokenizeShellWord, from scan position pos; TokenizeStep is
\* one iteration of it, given the template t that findNextTemplate found
RECURSIVE TokenizeFrom(_, _, _)
TokenizeStep(word, pos, tokens, t) ==
  IF ~t.found THEN Append(tokens, TextToken(SliceFrom(word, pos)))
  ELSE TokenizeFrom(word, t.end,
         PushTemplate(PushBefore(word, pos, tokens, t),
                      Slice(word, t.start, t.end),
                      parseField(Slice(word, t.start, t.end))))

TokenizeFrom(word, pos, tokens) ==
  IF pos >= Len(word) THEN tokens
  ELSE TokenizeStep(word, pos, tokens, findNextTemplate(word, pos))

\* mutant: no token is added when the loop found none
tokenizeShellWordNoFallback(word) == TokenizeFrom(word, 0, <<>>)

tokenizeShellWord(word) ==
  LET tokens == TokenizeFrom(word, 0, <<>>)
  IN IF Len(tokens) = 0 THEN <<TextToken(word)>> ELSE tokens

\* fromArgs: a Blueprint, or the error it throws
NoBlueprint == [ok |-> FALSE, error |-> "", baseCommand |-> <<>>, shellWords |-> <<>>]

\* mutant: a word with an opening marker and no complete placeholder is rejected
fromArgsStrict(args) ==
  IF Len(args) = 0
    THEN [NoBlueprint EXCEPT !.error = "cannot create blueprint: no command provided"]
  ELSE IF Trim(args[1]) = <<>>
    THEN [NoBlueprint EXCEPT !.error = "cannot create blueprint: empty command provided"]
  ELSE IF \E i \in 1..Len(args) :
            /\ Includes(args[i], "{") \/ Includes(args[i], "[")
            /\ ~findNextTemplate(args[i], 0).found
    THEN [NoBlueprint EXCEPT !.error = "cannot create blueprint: malformed template"]
  ELSE [ok |-> TRUE, error |-> "", baseCommand |-> args[1],
        shellWords |-> [i \in 1..Len(args) |-> tokenizeShellWord(args[i])]]

\* mutant: the command is stored without the blanks around it
fromArgsTrimmed(args) ==
  IF Len(args) = 0
    THEN [NoBlueprint EXCEPT !.error = "cannot create blueprint: no command provided"]
  ELSE IF Trim(args[1]) = <<>>
    THEN [NoBlueprint EXCEPT !.error = "cannot create blueprint: empty command provided"]
  ELSE [ok |-> TRUE, error |-> "", baseCommand |-> Trim(args[1]),
        shellWords |-> [i \in 1..Len(args) |-> tokenizeShellWord(args[i])]]

fromArgs(args) ==
  IF Len(args) = 0
    THEN [NoBlueprint EXCEPT !.error = "cannot create blueprint: no command provided"]
  ELSE IF Trim(args[1]) = <<>>
    THEN [NoBlueprint EXCEPT !.error = "cannot create blueprint: empty command provided"]
  ELSE [ok |-> TRUE, error |-> "", baseCommand |-> args[1],
        shellWords |-> [i \in 1..Len(args) |-> tokenizeShellWord(args[i])]]

(***************************************************************************)
(* State shared by every call                                              *)
(***************************************************************************)

\* the descriptions generateInputSchema has stored on Object.prototype and on
\* the objects it holds, as {name, description} records
VARIABLE objectPrototype

(***************************************************************************)
(* Schema generator (schema.ts)                                            *)
(***************************************************************************)

DefaultArrayDescription ==
  <<"A", "d", "d", "i", "t", "i", "o", "n", "a", "l", " ", "c", "o", "m", "m",
    "a", "n", "d", " ", "l", "i", "n", "e", " ", "a", "r", "g", "u", "m", "e",
    "n", "t", "s">>

\* name.replace(/-/g, "_")
normalizeFieldName(name) == ReplaceAll(name, "-", "_")

\* a schema: properties in the order Object.entries lists them, each
\* {name, type, items, description}
\* (description <<>> is "no description"), and the required list
EmptySchema == [type |-> "object", properties |-> <<>>, required |-> <<>>]

InSeq(x, s) == \E i \in 1..Len(s) : s[i] = x

\* the names every object literal inherits from Object.prototype
ObjectPrototypeNames ==
  { <<"c", "o", "n", "s", "t", "r", "u", "c", "t", "o", "r">>,
    <<"_", "_", "d", "e", "f", "i", "n", "e", "G", "e", "t", "t", "e", "r", "_", "_">>,
    <<"_", "_", "d", "e", "f", "i", "n", "e", "S", "e", "t", "t", "e", "r", "_", "_">>,
    <<"h", "a", "s", "O", "w", "n", "P", "r", "o", "p", "e", "r", "t", "y">>,
    <<"_", "_", "l", "o", "o", "k", "u", "p", "G", "e", "t", "t", "e", "r", "_", "_">>,
    <<"_", "_", "l", "o", "o", "k", "u", "p", "S", "e", "t", "t", "e", "r", "_", "_">>,
    <<"i", "s", "P", "r", "o", "t", "o", "t", "y", "p", "e", "O", "f">>,
    <<"p", "r", "o", "p", "e", "r", "t", "y", "I", "s", "E", "n", "u", "m", "e", "r", "a", "b", "l", "e">>,
    <<"t", "o", "S", "t", "r", "i", "n", "g">>,
    <<"v", "a", "l", "u", "e", "O", "f">>,
    <<"_", "_", "p", "r", "o", "t", "o", "_", "_">>,
    <<"t", "o", "L", "o", "c", "a", "l", "e", "S", "t", "r", "i", "n", "g">> }

ProtoName == <<"_", "_", "p", "r", "o", "t", "o", "_", "_">>
DescriptionName == <<"d", "e", "s", "c", "r", "i", "p", "t", "i", "o", "n">>

\* Object.prototype as the process starts
PristinePrototype == {}

\* heap[name].description was assigned
DescriptionStored(heap, name) == \E e \in heap : e.name = name

\* an object literal inherits name, given what was stored on Object.prototype
Inherits(heap, name) ==
  \/ name \in ObjectPrototypeNames
  \/ name = DescriptionName /\ DescriptionStored(heap, ProtoName)

\* index of the property recorded under key, 0 when there is none
PropIndex(properties, key) ==
  IF \E i \in 1..Len(properties) : properties[i].name = key
  THEN CHOOSE i \in 1..Len(properties) : properties[i].name = key
  ELSE 0

\* properties?.[key]?.type, "" when it is undefined
PropType(schema, key) ==
  LET i == PropIndex(schema.properties, key)
  IN IF i = 0 THEN "" ELSE schema.properties[i].type

\* the property a first occurrence of a field creates
NewProperty(normalizedName, token) ==
  IF token.originalFlag # <<>>
    THEN [name |-> normalizedName, type |-> "boolean", items |-> "",
          description |-> IF token.description = <<>>
                          THEN EnableText \o token.originalFlag \o FlagText
                          ELSE token.description]
  ELSE IF token.isArray
    THEN [name |-> normalizedName, type |-> "array", items |-> "string",
          description |-> IF token.description = <<>>
                          THEN DefaultArrayDescription
                          ELSE token.description]
  ELSE [name |-> normalizedName, type |-> "string", items |-> "",
        description |-> token.description]

\* required.push(normalizedName) unless it is included
PushRequired(required, normalizedName, token) ==
  IF token.required /\ ~InSeq(normalizedName, required)
  THEN Append(required, normalizedName) ELSE required

\* mutant: a later occurrence leaves the required list alone
UpdateOwnRequiredKept(acc, i, normalizedName, token) ==
  [schema |->
     [acc.schema EXCEPT
        !.properties[i].description =
           IF token.description # <<>> /\ @ = <<>>
              /\ ~DescriptionStored(acc.heap, ProtoName)
           THEN token.description ELSE @],
   heap |-> acc.heap]

\* mutant: a later occurrence with a description replaces the recorded one
UpdateOwnLastDescription(acc, i, normalizedName, token) ==
  [schema |->
     [acc.schema EXCEPT
        !.properties[i].description =
           IF token.description # <<>> THEN token.description ELSE @,
        !.required = PushRequired(@, normalizedName, token)],
   heap |-> acc.heap]

\* existingProp is a property of the object being built: its description is
\* its own, or the one every object inherits once Object.prototype has one
UpdateOwn(acc, i, normalizedName, token) ==
  [schema |->
     [acc.schema EXCEPT
        !.properties[i].description =
           IF token.description # <<>> /\ @ = <<>>
              /\ ~DescriptionStored(acc.heap, ProtoName)
           THEN token.description ELSE @,
        !.required = PushRequired(@, normalizedName, token)],
   heap |-> acc.heap]

\* existingProp is what properties[normalizedName] finds on Object.prototype:
\* the description is assigned to that shared object, nothing is recorded
UpdateInherited(acc, normalizedName, token) ==
  [schema |-> [acc.schema EXCEPT !.required = PushRequired(@, normalizedName, token)],
   heap |->
     IF /\ token.description # <<>>
        /\ normalizedName \in ObjectPrototypeNames
        /\ ~DescriptionStored(acc.heap, normalizedName)
        /\ ~DescriptionStored(acc.heap, ProtoName)
     THEN acc.heap \cup {[name |-> normalizedName, description |-> token.description]}
     ELSE acc.heap]

\* the digit a character stands for
DigitValue(c) == (CHOOSE k \in 1..10 : DigitChars[k] = c) - 1

\* numeric order of two canonical numeric strings, without computing them
IndexLess(a, b) ==
  \/ Len(a) < Len(b)
  \/ /\ Len(a) = Len(b)
     /\ \E i \in 1..Len(a) :
          /\ \A j \in 1..(i - 1) : a[j] = b[j]
          /\ DigitValue(a[i]) < DigitValue(b[i])

\* 2^32 - 2, the largest array index
MaxArrayIndex == <<"4", "2", "9", "4", "9", "6", "7", "2", "9", "4">>

\* the key is an array index: a canonical numeric string up to 2^32 - 2.
\* An object lists such keys first, in ascending numeric order, and its
\* other string keys behind them in the order of their creation.
IsArrayIndex(key) ==
  /\ key # <<>>
  /\ \A i \in 1..Len(key) : \E k \in 1..10 : DigitChars[k] = key[i]
  /\ Len(key) = 1 \/ key[1] # "0"
  /\ ~IndexLess(MaxArrayIndex, key)

\* number of properties an array index key is listed behind
IndexesBelow(properties, key) ==
  Cardinality({i \in 1..Len(properties) :
                 /\ IsArrayIndex(properties[i].name)
                 /\ IndexLess(properties[i].name, key)})

InsertAt(properties, n, prop) ==
  SubSeq(properties, 1, n) \o <<prop>> \o SubSeq(properties, n + 1, Len(properties))

\* properties[key] = prop for a key the object does not have, as the
\* enumeration of the object (Object.keys, Object.entries) then lists it
DefineProperty(properties, prop) ==
  IF IsArrayIndex(prop.name)
  THEN InsertAt(properties, IndexesBelow(properties, prop.name), prop)
  ELSE Append(properties, prop)

\* properties[normalizedName] = prop, with the required.push of its branch
CreateProperty(acc, normalizedName, token) ==
  [schema |->
     [acc.schema EXCEPT
        !.properties = DefineProperty(@, NewProperty(normalizedName, token)),
        !.required = IF token.originalFlag = <<>>
                     THEN PushRequired(@, normalizedName, token) ELSE @],
   heap |-> acc.heap]

\* the body of the inner loop of generateInputSchema for a field token
SchemaField(acc, normalizedName, token) ==
  IF PropIndex(acc.schema.properties, normalizedName) # 0
    THEN UpdateOwn(acc, PropIndex(acc.schema.properties, normalizedName),
                   normalizedName, token)
  ELSE IF Inherits(acc.heap, normalizedName)
    THEN UpdateInherited(acc, normalizedName, token)
  ELSE CreateProperty(acc, normalizedName, token)

\* the body of the inner loop of generateInputSchema, for one token; acc holds
\* the schema built so far and the state of Object.prototype
SchemaStep(acc, token) ==
  IF ~IsField(token) THEN acc
  ELSE SchemaField(acc, normalizeFieldName(token.name), token)

RECURSIVE SchemaFold(_, _)
SchemaFold(acc, tokens) ==
  IF tokens = <<>> THEN acc
  ELSE SchemaFold(SchemaStep(acc, Head(tokens)), Tail(tokens))

\* generateInputSchema run on a given Object.prototype: the schema it returns
\* and the Object.prototype it leaves
generateInputSchemaOn(bp, heap) ==
  SchemaFold([schema |-> EmptySchema, heap |-> heap], Flatten(bp.shellWords))

\* the schema generateInputSchema returns when it runs on a given Object.prototype
generateInputSchema(heap, bp) == generateInputSchemaOn(bp, heap).schema

(***************************************************************************)
(* Parameter values and maps                                               *)
(***************************************************************************)

\* a JavaScript value: t is its kind, and one of s, b, a, n holds it
Str(s) == [t |-> "string", s |-> s, b |-> FALSE, a |-> <<>>, n |-> 0]
Bool(b) == [t |-> "boolean", s |-> <<>>, b |-> b, a |-> <<>>, n |-> 0]
Arr(a) == [t |-> "array", s |-> <<>>, b |-> FALSE, a |-> a, n |-> 0]
Num(n) == [t |-> "number", s |-> <<>>, b |-> FALSE, a |-> <<>>, n |-> n]
Null == [t |-> "null", s |-> <<>>, b |-> FALSE, a |-> <<>>, n |-> 0]
Undefined == [t |-> "undefined", s |-> <<>>, b |-> FALSE, a |-> <<>>, n |-> 0]
\* a built-in function, s is its name
Func(s) == [t |-> "function", s |-> s, b |-> FALSE, a |-> <<>>, n |-> 0]
\* an object that is not a list; b tells whether String(value) can convert it
\* (it cannot when the object's toString and valueOf yield no primitive)
Obj(b) == [t |-> "object", s |-> <<>>, b |-> b, a |-> <<>>, n |-> 0]

\* the map has an entry of its own under key
HasOwn(params, key) == \E i \in 1..Len(params) : params[i].k = key

\* what a lookup of name finds on Object.prototype
InheritedValue(heap, name) ==
  IF name = ProtoName THEN Obj(TRUE)
  ELSE IF name = DescriptionName
    THEN Str((CHOOSE e \in heap : e.name = ProtoName).description)
  ELSE IF name = <<"c", "o", "n", "s", "t", "r", "u", "c", "t", "o", "r">> THEN Func(<<"O", "b", "j", "e", "c", "t">>)
  ELSE Func(name)

\* The operators below that read a parameter map take as heap the state of
\* Object.prototype at the moment of the read: a params object inherits from it.

\* key in params
HasKey(heap, params, key) ==
  HasOwn(params, key) \/ Inherits(heap, key)

\* params[key]
Get(heap, params, key) ==
  IF HasOwn(params, key)
    THEN params[CHOOSE i \in 1..Len(params) : params[i].k = key].v
  ELSE IF Inherits(heap, key)
    THEN InheritedValue(heap, key)
  ELSE Undefined

(***************************************************************************)
(* Command renderer (render.ts)                                            *)
(***************************************************************************)

\* mutant: the normalized key is tried before the exact one
findParamValueNormalizedFirst(heap, params, fieldName) ==
  LET normalized == normalizeFieldName(fieldName)
      dashed == ReplaceAll(fieldName, "_", "-")
  IN IF HasKey(heap, params, normalized)
       THEN [value |-> Get(heap, params, normalized), exists |-> TRUE]
     ELSE IF HasKey(heap, params, fieldName)
       THEN [value |-> Get(heap, params, fieldName), exists |-> TRUE]
     ELSE IF Includes(fieldName, "_") /\ HasKey(heap, params, dashed)
       THEN [value |-> Get(heap, params, dashed), exists |-> TRUE]
     ELSE [value |-> Undefined, exists |-> FALSE]

findParamValue(heap, params, fieldName) ==
  LET normalized == normalizeFieldName(fieldName)
      dashed == ReplaceAll(fieldName, "_", "-")
  IN IF HasKey(heap, params, fieldName)
       THEN [value |-> Get(heap, params, fieldName), exists |-> TRUE]
     ELSE IF HasKey(heap, params, normalized)
       THEN [value |-> Get(heap, params, normalized), exists |-> TRUE]
     ELSE IF Includes(fieldName, "_") /\ HasKey(heap, params, dashed)
       THEN [value |-> Get(heap, params, dashed), exists |-> TRUE]
     ELSE [value |-> Undefined, exists |-> FALSE]

hasValue(value) ==
  CASE value.t = "string" -> value.s # <<>>
    [] value.t = "boolean" -> value.b
    [] value.t = "array" -> Len(value.a) > 0
    [] OTHER -> value.t \notin {"null", "undefined"}

\* String(n) for an integer n >= 0
RECURSIVE NatToString(_)
NatToString(n) ==
  IF n < 10 THEN <<DigitChars[n + 1]>>
  ELSE NatToString(n \div 10) \o <<DigitChars[(n % 10) + 1]>>

\* array.join(",")
RECURSIVE JoinComma(_)
JoinComma(items) ==
  IF items = <<>> THEN <<>>
  ELSE IF Len(items) = 1 THEN Head(items)
  ELSE Head(items) \o <<",">> \o JoinComma(Tail(items))

\* String(f) for a built-in function f, String(o) for a plain object o
FunctionPrefix == <<"f", "u", "n", "c", "t", "i", "o", "n", " ">>
NativeCode == <<"(", ")", " ", "{", " ", "[", "n", "a", "t", "i", "v", "e", " ", "c", "o", "d", "e", "]", " ", "}">>
ObjectObject == <<"[", "o", "b", "j", "e", "c", "t", " ", "O", "b", "j", "e", "c", "t", "]">>

valueToString(value) ==
  CASE value.t = "string" -> value.s
    [] value.t = "boolean" ->
         IF value.b THEN <<"t", "r", "u", "e">> ELSE <<"f", "a", "l", "s", "e">>
    [] value.t = "array" -> JoinComma(value.a)
    [] value.t = "number" -> NatToString(value.n)
    [] value.t = "null" -> <<"n", "u", "l", "l">>
    [] value.t = "function" -> FunctionPrefix \o value.s \o NativeCode
    [] value.t = "object" -> ObjectObject
    [] OTHER -> <<"u", "n", "d", "e", "f", "i", "n", "e", "d">>

\* typeof value
TypeOf(value) ==
  CASE value.t = "string" -> <<"s", "t", "r", "i", "n", "g">>
    [] value.t = "boolean" -> <<"b", "o", "o", "l", "e", "a", "n">>
    [] value.t = "number" -> <<"n", "u", "m", "b", "e", "r">>
    [] value.t = "undefined" -> <<"u", "n", "d", "e", "f", "i", "n", "e", "d">>
    [] value.t = "function" -> <<"f", "u", "n", "c", "t", "i", "o", "n">>
    [] OTHER -> <<"o", "b", "j", "e", "c", "t">>

\* String(value) throws a TypeError
ToStringThrows(value) == value.t = "object" /\ ~value.b

\* a render result [shouldInclude, words]; raised: the call threw instead
Excluded == [include |-> FALSE, words |-> <<>>, raised |-> FALSE]
Included(words) == [include |-> TRUE, words |-> words, raised |-> FALSE]
Raised == [include |-> FALSE, words |-> <<>>, raised |-> TRUE]

\* mutant: no branch for boolean properties
renderSingleOptionalFieldNoFlag(heap, bp, fieldToken, params) ==
  LET found == findParamValue(heap, params, fieldToken.name)
      strValue == valueToString(found.value)
  IN IF ~found.exists THEN Excluded
     ELSE IF ToStringThrows(found.value) THEN Raised
     ELSE IF strValue # <<>> THEN Included(<<strValue>>)
     ELSE Excluded

renderSingleOptionalField(heap, bp, fieldToken, params) ==
  LET found == findParamValue(heap, params, fieldToken.name)
      inputSchema == generateInputSchema(heap, bp)
      normalizedName == normalizeFieldName(fieldToken.name)
      strValue == valueToString(found.value)
  IN IF ~found.exists THEN Excluded
     ELSE IF PropType(inputSchema, normalizedName) = "boolean"
       THEN IF found.value.t = "boolean" /\ found.value.b
            THEN IF fieldToken.originalFlag # <<>>
                 THEN Included(<<fieldToken.originalFlag>>)
                 ELSE Included(<< <<"-">> \o fieldToken.name >>)
            ELSE Excluded
     ELSE IF ToStringThrows(found.value) THEN Raised
     ELSE IF strValue # <<>> THEN Included(<<strValue>>)
     ELSE Excluded

\* mutant: the list is passed on as one comma-joined argument
renderArrayFieldJoined(heap, fieldToken, params) ==
  LET found == findParamValue(heap, params, fieldToken.name)
  IN IF ~found.exists THEN Excluded
     ELSE IF found.value.t = "array"
       THEN [include |-> Len(found.value.a) > 0, words |-> <<JoinComma(found.value.a)>>,
             raised |-> FALSE]
     ELSE Excluded

renderArrayField(heap, fieldToken, params) ==
  LET found == findParamValue(heap, params, fieldToken.name)
  IN IF ~found.exists THEN Excluded
     ELSE IF found.value.t = "array"
       THEN [include |-> Len(found.value.a) > 0, words |-> found.value.a,
             raised |-> FALSE]
     ELSE Excluded

\* first pass of renderShellWord: hasRequiredContent
HasRequiredContent(tokens) ==
  \E i \in 1..Len(tokens) : IsText(tokens[i]) \/ (IsField(tokens[i]) /\ tokens[i].required)

\* first pass of renderShellWord: allOptionalFieldsEmpty
AllOptionalFieldsEmpty(heap, tokens, params) ==
  \A i \in 1..Len(tokens) :
    IsField(tokens[i]) =>
      LET found == findParamValue(heap, params, tokens[i].name)
      IN ~(found.exists /\ (tokens[i].required \/ hasValue(found.value)))

\* mutant: an empty text is skipped like an empty value
PartsOfNonEmpty(heap, token, params) ==
  IF IsText(token) THEN (IF token.value # <<>> THEN <<token.value>> ELSE <<>>)
  ELSE IF IsField(token)
    THEN LET found == findParamValue(heap, params, token.name)
             strValue == valueToString(found.value)
         IN IF found.exists /\ strValue # <<>> THEN <<strValue>> ELSE <<>>
  ELSE <<>>

\* the part pushed for one token in the concatenation loop (<<>>: nothing pushed)
PartsOf(heap, token, params) ==
  IF IsText(token) THEN <<token.value>>
  ELSE IF IsField(token)
    THEN LET found == findParamValue(heap, params, token.name)
             strValue == valueToString(found.value)
         IN IF found.exists /\ strValue # <<>> THEN <<strValue>> ELSE <<>>
  ELSE <<>>

\* the conversion of the value of some field token of the word throws
PartRaises(heap, tokens, params) ==
  \E i \in 1..Len(tokens) :
    /\ IsField(tokens[i])
    /\ findParamValue(heap, params, tokens[i].name).exists
    /\ ToStringThrows(findParamValue(heap, params, tokens[i].name).value)

\* mutant: the parts are returned without being joined
ConcatWordUnjoined(heap, tokens, params) ==
  LET parts == Flatten([i \in 1..Len(tokens) |-> PartsOf(heap, tokens[i], params)])
  IN IF PartRaises(heap, tokens, params) THEN Raised
     ELSE IF Len(parts) > 0 THEN Included(parts) ELSE Excluded

\* mutant: the word is emitted only when the joined string is not empty
ConcatWordNonEmpty(heap, tokens, params) ==
  LET parts == Flatten([i \in 1..Len(tokens) |-> PartsOf(heap, tokens[i], params)])
  IN IF PartRaises(heap, tokens, params) THEN Raised
     ELSE IF Join(parts) # <<>> THEN Included(<<Join(parts)>>) ELSE Excluded

\* second pass of renderShellWord: the concatenated string
ConcatWord(heap, tokens, params) ==
  LET parts == Flatten([i \in 1..Len(tokens) |-> PartsOf(heap, tokens[i], params)])
  IN IF PartRaises(heap, tokens, params) THEN Raised
     ELSE IF Len(parts) > 0 THEN Included(<<Join(parts)>>) ELSE Excluded

\* the first pass reads params on the Object.prototype of the call; a word of
\* one field token then runs generateInputSchema, and everything after it reads
\* params on the Object.prototype that run leaves
renderShellWord(heap, bp, tokens, params) ==
  IF ~HasRequiredContent(tokens) /\ AllOptionalFieldsEmpty(heap, tokens, params)
    THEN Excluded
  ELSE IF Len(tokens) = 1 /\ IsField(tokens[1])
    THEN LET generated == generateInputSchemaOn(bp, heap)
         IN IF PropType(generated.schema, normalizeFieldName(tokens[1].name)) = "array"
              THEN renderArrayField(generated.heap, tokens[1], params)
            ELSE IF ~tokens[1].required
              THEN renderSingleOptionalField(generated.heap, bp, tokens[1], params)
            ELSE ConcatWord(generated.heap, tokens, params)
  ELSE ConcatWord(heap, tokens, params)

MissingPrefix ==
  <<"m", "i", "s", "s", "i", "n", "g", " ", "r", "e", "q", "u", "i", "r", "e",
    "d", " ", "p", "a", "r", "a", "m", "e", "t", "e", "r", ":", " ">>
ParamPrefix == <<"p", "a", "r", "a", "m", "e", "t", "e", "r", " ", "'">>
MustBeArray ==
  <<"'", " ", "m", "u", "s", "t", " ", "b", "e", " ", "a", "n", " ", "a", "r",
    "r", "a", "y", ",", " ", "g", "o", "t", " ">>

\* the outcome of buildCommandArgs: the argument list, or the message thrown
Returned(args) == [ok |-> TRUE, args |-> args, error |-> <<>>]
Thrown(message) == [ok |-> FALSE, args |-> <<>>, error |-> message]

\* mutant: only the first required name is checked
MissingRequiredFirstOnly(heap, schema, params) ==
  {i \in 1..Len(schema.required) :
     i = 1 /\ ~findParamValue(heap, params, schema.required[i]).exists}

\* first loop of buildCommandArgs: positions in required with no value
MissingRequired(heap, schema, params) ==
  {i \in 1..Len(schema.required) : ~findParamValue(heap, params, schema.required[i]).exists}

\* mutant: the schema is consulted under the supplied key, not the normalized one
NotAnArrayRawKey(schema, params) ==
  {i \in 1..Len(params) :
     /\ PropType(schema, params[i].k) = "array"
     /\ params[i].v.t # "array"}

\* second loop of buildCommandArgs: entries that fail the array check
NotAnArray(schema, params) ==
  {i \in 1..Len(params) :
     /\ PropType(schema, normalizeFieldName(params[i].k)) = "array"
     /\ params[i].v.t # "array"}

\* third loop of buildCommandArgs: the outcome of renderShellWord for each word
RenderAll(heap, bp, params) ==
  [i \in 1..Len(bp.shellWords) |-> renderShellWord(heap, bp, bp.shellWords[i], params)]

\* what each word pushes onto result, given the outcomes
Pushed(rendered) ==
  [i \in 1..Len(rendered) |-> IF rendered[i].include THEN rendered[i].words ELSE <<>>]

\* third loop of buildCommandArgs: what each word pushes onto result
WordResults(heap, bp, params) == Pushed(RenderAll(heap, bp, params))

RenderWords(heap, bp, params) == Flatten(WordResults(heap, bp, params))

\* the message of the TypeError String(value) throws
CannotConvert == <<"C", "a", "n", "n", "o", "t", " ", "c", "o", "n", "v", "e", "r", "t", " ", "o", "b", "j", "e", "c", "t", " ", "t", "o", " ", "p", "r", "i", "m", "i", "t", "i", "v", "e", " ", "v", "a", "l", "u", "e">>

\* the end of the third loop: the TypeError of the first word whose rendering
\* throws, or the list that was built
Rendering(rendered) ==
  IF \E i \in 1..Len(rendered) : rendered[i].raised THEN Thrown(CannotConvert)
  ELSE Returned(Flatten(Pushed(rendered)))

Least(S) == CHOOSE i \in S : \A j \in S : i <= j

\* mutant: the words are rendered before the parameters are validated
buildCommandArgsRenderFirst(heap, bp, params) ==
  LET generated == generateInputSchemaOn(bp, heap)
      inputSchema == generated.schema
      missing == MissingRequired(generated.heap, inputSchema, params)
      wrong == NotAnArray(inputSchema, params)
  IN IF \E i \in 1..Len(bp.shellWords) :
          renderShellWord(generated.heap, bp, bp.shellWords[i], params).raised
       THEN Thrown(CannotConvert)
     ELSE IF missing # {}
       THEN Thrown(MissingPrefix \o inputSchema.required[Least(missing)])
     ELSE IF wrong # {}
       THEN Thrown(ParamPrefix \o params[Least(wrong)].k \o MustBeArray
                   \o TypeOf(params[Least(wrong)].v))
     ELSE Rendering(RenderAll(generated.heap, bp, params))

\* heap is the Object.prototype of the call; generateInputSchema runs first
\* (a field named __proto__ stores its description there), and the three loops
\* read params on the Object.prototype it leaves
buildCommandArgs(heap, bp, params) ==
  LET generated == generateInputSchemaOn(bp, heap)
      inputSchema == generated.schema
      missing == MissingRequired(generated.heap, inputSchema, params)
      wrong == NotAnArray(inputSchema, params)
  IN IF missing # {}
       THEN Thrown(MissingPrefix \o inputSchema.required[Least(missing)])
     ELSE IF wrong # {}
       THEN Thrown(ParamPrefix \o params[Least(wrong)].k \o MustBeArray
                   \o TypeOf(params[Least(wrong)].v))
     ELSE Rendering(RenderAll(generated.heap, bp, params))

(***************************************************************************)
(* Inputs                                                                  *)
(***************************************************************************)

\* total number of pieces in the words of an argument vector
MaxPieces == 2
\* number of entries of a parameter map
MaxParams == 2

\* the pieces argument words are assembled from: literal text, required and
\* optional scalars, a flag, required and optional arrays, an unclosed marker
Pieces ==
  { <<"a">>,
    <<"{", "x", "}">>,
    <<"{", "m", "-", "v", "}">>,
    <<"[", "m", "_", "v", "]">>,
    <<"[", "-", "-", "m", "-", "v", "]">>,
    <<"{", "x", ".", ".", ".", "}">>,
    <<"[", "m", "-", "v", ".", ".", ".", "]">>,
    <<"{", "{", "x">> }

BaseCommand == <<"c">>

\* the words made of exactly n pieces
RECURSIVE WordsOf(_)
WordsOf(n) ==
  IF n = 1 THEN Pieces
  ELSE {w \o p : w \in WordsOf(n - 1), p \in Pieces}

\* the word lists made of exactly n pieces in total
RECURSIVE WordLists(_)
WordLists(n) ==
  IF n = 0 THEN {<<>>}
  ELSE UNION {{<<w>> \o rest : w \in WordsOf(k), rest \in WordLists(n - k)} : k \in 1..n}

\* the argument vectors: none, a blank command, a literal command followed by
\* template words, and a command that is itself a single piece
Argvs ==
  {<<>>, << <<" ">> >>}
  \cup {<<BaseCommand>> \o ws : ws \in UNION {WordLists(n) : n \in 0..MaxPieces}}
  \cup {<<w>> : w \in Pieces}

\* the keys a caller may supply, in the order the caller inserts them
Keys == << <<"x">>, <<"m", "-", "v">>, <<"m", "_", "v">> >>

Values ==
  { Str(<<>>), Str(<<"a", " ", "b">>), Bool(TRUE), Bool(FALSE),
    Arr(<<>>), Arr(<< <<"a">>, <<"b", " ", "c">> >>), Null }

\* parameter maps of exactly n entries over the keys from position i on
RECURSIVE ParamsFrom(_, _)
ParamsFrom(i, n) ==
  IF n = 0 THEN {<<>>}
  ELSE UNION {{<<[k |-> Keys[j], v |-> v]>> \o rest :
                 v \in Values, rest \in ParamsFrom(j + 1, n - 1)} :
              j \in i..Len(Keys)}

ParamMaps == UNION {ParamsFrom(1, n) : n \in 0..MaxParams}

\* number of words that follow the command in a command line of literal words
MaxWords == 2

\* words with nothing to substitute (empty, plain, an empty placeholder, an
\* unclosed marker) and words with a required, an array and an optional field
LiteralWords == { <<>>, <<"a">>, <<"a", "{", "}">>, <<"{", "{", "x">> }
FieldWords ==
  { <<"{", "x", "}">>, <<"[", "m", "-", "v", ".", ".", ".", "]">>, <<"a", "[", "y", "]">>,
    <<"[", "t", "o", "S", "t", "r", "i", "n", "g", "]">>,
    <<"a", "[", "t", "o", "S", "t", "r", "i", "n", "g", "]">> }

\* the lists of at most n words
RECURSIVE WordListsUpTo(_, _)
WordListsUpTo(words, n) ==
  IF n = 0 THEN {<<>>}
  ELSE WordListsUpTo(words, n - 1)
       \cup {<<w>> \o rest : w \in words, rest \in WordListsUpTo(words, n - 1)}

\* commands: plain, and kept with the blanks around it
Commands == { BaseCommand, <<" ", "c", " ">> }

\* command lines: none, an empty and a blank first element, a command followed by words
WordArgvs ==
  {<<>>, << <<>> >>, << <<" ", "\t">> >>, << <<" ", "\t">>, <<"a">> >>,
   << <<"\f", " ">> >>, << <<"\f", "c", " ">>, <<"a">> >>}
  \cup {<<c>> \o ws : c \in Commands,
                       ws \in WordListsUpTo(LiteralWords \cup FieldWords, MaxWords)}

\* parameter maps for these command lines: values that render, a value that
\* String() cannot convert, a non-list for the array field, inherited names
WordParamMaps ==
  { <<>>,
    <<[k |-> <<"x">>, v |-> Str(<<"a", " ", "b">>)]>>,
    <<[k |-> <<"x">>, v |-> Obj(FALSE)]>>,
    <<[k |-> <<"x">>, v |-> Obj(FALSE)], [k |-> <<"m", "_", "v">>, v |-> Str(<<"a", " ", "b">>)]>>,
    <<[k |-> <<"x">>, v |-> Str(<<"a", " ", "b">>)], [k |-> <<"y">>, v |-> Obj(FALSE)]>>,
    <<[k |-> <<"x">>, v |-> Num(0)], [k |-> <<"m", "_", "v">>, v |-> Arr(<< <<"a", " ", "b">> >>)]>>,
    <<[k |-> <<"t", "o", "S", "t", "r", "i", "n", "g">>, v |-> Str(<<"a", " ", "b">>)], [k |-> <<"a">>, v |-> Bool(TRUE)]>> }

\* number of words that follow the command in a command line of field words
MaxFields == 3

\* one field per word: a name written as required and optional scalar, with
\* and without a description, as a flag and as an array; a dashed name; names
\* every object inherits; one name in two letter cases
SchemaWords ==
  { <<"{", "x", "}">>,
    <<"[", "x", "]">>,
    <<"{", "x", "#", "e", "}">>,
    <<"[", "x", "#", "f", "]">>,
    <<"[", "-", "-", "x", "]">>,
    <<"{", "x", ".", ".", ".", "}">>,
    <<"{", "m", "-", "v", "}">>,
    <<"{", "_", "_", "p", "r", "o", "t", "o", "_", "_", "#", "d", "}">>,
    <<"{", "c", "o", "n", "s", "t", "r", "u", "c", "t", "o", "r", "}">>,
    <<"{", "u", "s", "e", "r", "N", "a", "m", "e", "}">>,
    <<"{", "u", "s", "e", "r", "n", "a", "m", "e", "}">>,
    <<"{", "1", "0", "}">>,
    <<"[", "2", "]">> }

SchemaArgvs ==
  {<<>>} \cup {<<BaseCommand>> \o ws : ws \in WordListsUpTo(SchemaWords, MaxFields)}

\* parameter maps for these command lines
SchemaParamMaps ==
  { <<>>,
    <<[k |-> <<"x">>, v |-> Str(<<"a", " ", "b">>)]>>,
    <<[k |-> <<"u", "s", "e", "r", "n", "a", "m", "e">>, v |-> Str(<<"a">>)]>>,
    <<[k |-> <<"u", "s", "e", "r", "N", "a", "m", "e">>, v |-> Str(<<"a">>)]>> }

\* number of items that follow the placeholder of a word
MaxPost == 1

\* what stands before the placeholder of a word: nothing, text, an opening
\* brace, an opening bracket, a complete placeholder
Pres == { <<>>, <<"a">>, <<"{">>, <<"[">>, <<"[", "y", "]">> }

\* what a placeholder holds: names with blanks, a description, the array
\* suffix, dashes, a dash and an underscore, and contents without a name
Contents ==
  { <<"x">>, <<" ", "x", " ">>, <<"x", "#", "d">>, <<"x", ".", ".", ".">>, <<"-", "f">>, <<>>, <<" ">>, <<"#", "d">>, <<".", ".", ".">>, <<"a", "-", "b", "_", "c">>,
    <<"\f">>, <<" ", "x", "\f">> }

\* contents of bracket placeholders only: dashes without a name
DashContents == { <<"-">>, <<"-", "-">> }

PostItems == { <<"b">>, <<"}">>, <<"{", "y", "}">> }

\* concatenations of at most n items
RECURSIVE PostsUpTo(_)
PostsUpTo(n) ==
  IF n = 0 THEN {<<>>}
  ELSE PostsUpTo(n - 1) \cup {i \o rest : i \in PostItems, rest \in PostsUpTo(n - 1)}

Single(content) == <<"{">> \o content \o <<"}">>
Double(content) == <<"{", "{">> \o content \o <<"}", "}">>
Bracket(content) == <<"[">> \o content \o <<"]">>

\* command lines with one placeholder word, and with the same placeholder
\* written {X} in one word and {{X}} in the next
ParseArgvs ==
  {<<BaseCommand, pre \o Bracket(x) \o post>> :
     pre \in Pres, x \in Contents \cup DashContents, post \in PostsUpTo(MaxPost)}
  \cup {<<BaseCommand, pre \o Single(x) \o post, pre \o Double(x) \o post>> :
          pre \in Pres, x \in Contents, post \in PostsUpTo(MaxPost)}
  \cup {<<BaseCommand, <<>>, Single(x)>> : x \in Contents}

ParseParamMaps ==
  { <<>>,
    <<[k |-> <<"x">>, v |-> Str(<<"a", " ", "b">>)]>>,
    <<[k |-> <<"x">>, v |-> Str(<<>>)]>>,
    <<[k |-> <<"x">>, v |-> Str(<<"v">>)], [k |-> <<"y">>, v |-> Str(<<"w">>)]>>,
    <<[k |-> <<"a", "-", "b", "_", "c">>, v |-> Str(<<"v">>)]>>,
    <<[k |-> <<"a", "_", "b", "_", "c">>, v |-> Str(<<"v">>)]>>,
    <<[k |-> <<"a", "-", "b", "-", "c">>, v |-> Str(<<"v">>)]>>,
    <<[k |-> <<"f">>, v |-> Bool(TRUE)], [k |-> <<"x">>, v |-> Arr(<< <<"v">> >>)]>> }

\* length of the words whose tokenization is followed step by step
MaxLen == 3

Alphabet == {"a", "{", "}", "[", "]"}

\* all words over the alphabet, up to the length
RECURSIVE WordsUpTo(_)
WordsUpTo(n) ==
  IF n = 0 THEN {<<>>}
  ELSE WordsUpTo(n - 1)
       \cup {<<c>> \o w : c \in Alphabet, w \in {v \in WordsUpTo(n - 1) : Len(v) = n - 1}}

\* a placeholder or text, an opening marker or an empty span, and a
\* well-formed placeholder in one of the three forms
MixedWords ==
  { pre \o open \o post :
      pre \in {<<"{", "a", "}">>, <<"[", "a", "]">>, <<"a">>},
      open \in {<<"{">>, <<"{", "{">>, <<"[">>, <<"{", "}">>},
      post \in {<<"{", "a", "}">>, <<"[", "a", "]">>, <<"{", "{", "a", "}", "}">>} }

ScanWords == WordsUpTo(MaxLen) \cup MixedWords

(***************************************************************************)
(* The server: one blueprint is built from the command line, its schema is *)
(* registered, and every tool call renders its parameters.                 *)
(***************************************************************************)

\* pc: position of main; args, bp, schema: commandArgs (what parseArgs leaves
\* of the command line), its blueprint and the schema registered for it;
\* params, result, emitted: the tool call being handled; inputSchema: the schema the handler generated for that call;
\* scan: a run of tokenizeShellWord observed one loop iteration at a time
VARIABLES pc, args, bp, schema, params, result, emitted, inputSchema, scan

vars == <<pc, args, bp, schema, params, result, emitted, objectPrototype, inputSchema, scan>>

NoResult == [ok |-> FALSE, args |-> <<>>, error |-> <<>>]

\* no run of tokenizeShellWord is under way
Idle == [at |-> "idle", word |-> <<>>, pos |-> 0, tokens |-> <<>>,
         from |-> 0, templateStart |-> NoMatch]

Init ==
  /\ pc = "start"
  /\ args = <<>>
  /\ bp = NoBlueprint
  /\ schema = EmptySchema
  /\ params = <<>>
  /\ result = NoResult
  /\ emitted = <<>>
  /\ objectPrototype = PristinePrototype
  /\ inputSchema = EmptySchema
  /\ scan = Idle

\* main, for the commandArgs of a command line, drawn from argvs: when
\* commandArgs is empty the usage line is printed and the process exits with
\* code 1, fromArgs is not called and no template is assigned; otherwise
\* const template = fromArgs(commandArgs)
FromArgsOf(argvs) ==
  /\ pc = "start"
  /\ \E a \in argvs :
       /\ args' = a
       /\ bp' = IF Len(a) = 0 THEN bp ELSE fromArgs(a)
       /\ pc' = IF Len(a) = 0 THEN "usage"
                ELSE IF bp'.ok THEN "parsed" ELSE "failed"
  /\ UNCHANGED <<schema, params, result, emitted, objectPrototype, inputSchema, scan>>

FromArgs == FromArgsOf(Argvs)

\* main: const inputSchema = generateInputSchema(template); registerTool
RegisterTool ==
  /\ pc = "parsed"
  /\ \E generated \in {generateInputSchemaOn(bp, objectPrototype)} :
       /\ schema' = generated.schema
       /\ objectPrototype' = generated.heap
  /\ pc' = "serving"
  /\ UNCHANGED <<args, bp, params, result, emitted, inputSchema, scan>>

\* the tool handler: buildCommandArgs(template, params), for a parameter map
\* from maps; emitted records what each iteration of the rendering loop pushed
CallToolOf(maps) ==
  /\ pc = "serving"
  /\ \E p \in maps, generated \in {generateInputSchemaOn(bp, objectPrototype)} :
       /\ params' = p
       /\ result' = buildCommandArgs(objectPrototype, bp, p)
       /\ emitted' = IF result'.ok THEN WordResults(generated.heap, bp, p) ELSE <<>>
       /\ inputSchema' = generated.schema
       /\ objectPrototype' = generated.heap
  /\ pc' = "called"
  /\ UNCHANGED <<args, bp, schema, scan>>

CallTool == CallToolOf(ParamMaps)

\* the tool handler returns its content; the server waits for the next call
Respond ==
  /\ pc = "called"
  /\ pc' = "serving"
  /\ params' = <<>>
  /\ result' = NoResult
  /\ emitted' = <<>>
  /\ inputSchema' = EmptySchema
  /\ UNCHANGED <<args, bp, schema, objectPrototype, scan>>

\* mutant: the scan resumes one character before the end of the span
IterateShort(s, t) ==
  IF ~t.found
    THEN [s EXCEPT !.at = "return", !.from = s.pos, !.templateStart = t,
                   !.tokens = Append(@, TextToken(SliceFrom(s.word, s.pos)))]
  ELSE [s EXCEPT !.from = s.pos, !.templateStart = t, !.pos = t.end - 1,
                 !.tokens = PushTemplate(PushBefore(s.word, s.pos, @, t),
                                         Slice(s.word, t.start, t.end),
                                         parseField(Slice(s.word, t.start, t.end)))]

\* offset behind the first opening marker of the text, 0 when it has none
BehindFirstMarker(text) ==
  IF IndexOf(text, <<"{">>) = -1 THEN IndexOf(text, <<"[">>) + 1
  ELSE IF IndexOf(text, <<"[">>) = -1 THEN IndexOf(text, <<"{">>) + 1
  ELSE IF IndexOf(text, <<"[">>) < IndexOf(text, <<"{">>) THEN IndexOf(text, <<"[">>) + 1
  ELSE IndexOf(text, <<"{">>) + 1

\* mutant: after a marker without closer the scan goes on behind the marker
IterateRetry(s, t) ==
  IF ~t.found /\ BehindFirstMarker(SliceFrom(s.word, s.pos)) = 0
    THEN [s EXCEPT !.at = "return", !.from = s.pos, !.templateStart = t,
                   !.tokens = Append(@, TextToken(SliceFrom(s.word, s.pos)))]
  ELSE IF ~t.found
    THEN [s EXCEPT !.from = s.pos, !.templateStart = t,
                   !.pos = s.pos + BehindFirstMarker(SliceFrom(s.word, s.pos)),
                   !.tokens = Append(@, TextToken(Slice(s.word, s.pos,
                                 s.pos + BehindFirstMarker(SliceFrom(s.word, s.pos)))))]
  ELSE [s EXCEPT !.from = s.pos, !.templateStart = t, !.pos = t.end,
                 !.tokens = PushTemplate(PushBefore(s.word, s.pos, @, t),
                                         Slice(s.word, t.start, t.end),
                                         parseField(Slice(s.word, t.start, t.end)))]

\* one iteration of the while loop of tokenizeShellWord, given the
\* templateStart that findNextTemplate returned: break with the remaining
\* text, or push the text before the template and the template, and move pos
Iterate(s, t) ==
  IF ~t.found
    THEN [s EXCEPT !.at = "return", !.from = s.pos, !.templateStart = t,
                   !.tokens = Append(@, TextToken(SliceFrom(s.word, s.pos)))]
  ELSE [s EXCEPT !.from = s.pos, !.templateStart = t, !.pos = t.end,
                 !.tokens = PushTemplate(PushBefore(s.word, s.pos, @, t),
                                         Slice(s.word, t.start, t.end),
                                         parseField(Slice(s.word, t.start, t.end)))]

\* tokenizeShellWord is entered with a word
Tokenize ==
  /\ scan.at = "idle"
  /\ pc = "start"
  /\ \E w \in ScanWords :
       scan' = [Idle EXCEPT !.at = "loop", !.word = w]
  /\ UNCHANGED <<pc, args, bp, schema, params, result, emitted, objectPrototype, inputSchema>>

\* while (pos < word.length): one iteration
ScanStep ==
  /\ scan.at = "loop"
  /\ scan.pos < Len(scan.word)
  /\ \E templateStart \in {findNextTemplate(scan.word, scan.pos)} :
       scan' = Iterate(scan, templateStart)
  /\ UNCHANGED <<pc, args, bp, schema, params, result, emitted, objectPrototype, inputSchema>>

\* while (pos < word.length) is false
ExitLoop ==
  /\ scan.at = "loop"
  /\ scan.pos >= Len(scan.word)
  /\ scan' = [scan EXCEPT !.at = "return"]
  /\ UNCHANGED <<pc, args, bp, schema, params, result, emitted, objectPrototype, inputSchema>>

\* if (tokens.length === 0) tokens.push(new TextToken(word)); return tokens
Return ==
  /\ scan.at = "return"
  /\ scan' = [scan EXCEPT !.at = "done",
                          !.tokens = IF Len(@) = 0 THEN <<TextToken(scan.word)>> ELSE @]
  /\ UNCHANGED <<pc, args, bp, schema, params, result, emitted, objectPrototype, inputSchema>>

Next == FromArgs \/ RegisterTool \/ CallTool \/ Respond

Spec == Init /\ [][Next]_vars

\* the server started on a command line of literal and simple template words
FromWordArgs == FromArgsOf(WordArgvs)

\* fromArgs as a function of its argument vector: the vector is drawn, then
\* fromArgs is applied to it and either returns a blueprint or throws
FromArgsInit ==
  /\ pc = "input"
  /\ args \in WordArgvs
  /\ bp = NoBlueprint
  /\ schema = EmptySchema
  /\ params = <<>>
  /\ result = NoResult
  /\ emitted = <<>>
  /\ objectPrototype = PristinePrototype
  /\ inputSchema = EmptySchema
  /\ scan = Idle

ApplyFromArgs ==
  /\ pc = "input"
  /\ bp' = fromArgs(args)
  /\ pc' = IF bp'.ok THEN "returned" ELSE "thrown"
  /\ UNCHANGED <<args, schema, params, result, emitted, objectPrototype, inputSchema, scan>>

FromArgsSpec == FromArgsInit /\ [][ApplyFromArgs]_vars

CallWordTool == CallToolOf(WordParamMaps)

WordNext == FromWordArgs \/ RegisterTool \/ CallWordTool \/ Respond

WordSpec == Init /\ [][WordNext]_vars

\* the server started on a command line of field words
FromSchemaArgs == FromArgsOf(SchemaArgvs)

CallSchemaTool == CallToolOf(SchemaParamMaps)

SchemaNext == FromSchemaArgs \/ RegisterTool \/ CallSchemaTool \/ Respond

SchemaSpec == Init /\ [][SchemaNext]_vars

\* the server started on a command line of placeholder words
FromParseArgs == FromArgsOf(ParseArgvs)

CallParseTool == CallToolOf(ParseParamMaps)

ParseNext == FromParseArgs \/ RegisterTool \/ CallParseTool \/ Respond

ParseSpec == Init /\ [][ParseNext]_vars

\* tokenizeShellWord followed one loop iteration at a time
ScanNext == Tokenize \/ ScanStep \/ ExitLoop \/ Return

ScanSpec == Init /\ [][ScanNext]_vars

\* the loop is not suspended for ever: the function runs to its return
ScanLive == ScanSpec /\ WF_vars(ScanStep) /\ WF_vars(ExitLoop) /\ WF_vars(Return)

(***************************************************************************)
(* Properties                                                              *)
(***************************************************************************)

Called == pc = "called"

Rendered == pc = "called" /\ result.ok

WordIndexes == 1..Len(bp.shellWords)

\* the word is exactly one field token
LoneField(i) == Len(bp.shellWords[i]) = 1 /\ IsField(bp.shellWords[i][1])

\* the schema type recorded for a field token
TypeOfField(token) == PropType(schema, ReplaceAll(token.name, "-", "_"))

\* no entry under the name or under its dash/underscore variants
Absent(name) ==
  /\ ~HasOwn(params, name)
  /\ ~HasOwn(params, ReplaceAll(name, "-", "_"))
  /\ ~HasOwn(params, ReplaceAll(name, "_", "-"))

FirstAbsent ==
  Least({i \in 1..Len(schema.required) : Absent(schema.required[i])})

\* C1: when a required name has no entry under the name or its dash/underscore
\* variant, buildCommandArgs throws "missing required parameter: <name>" for the
\* first such name and returns no arguments.
C1_MissingRequiredFails ==
  Called /\ (\E i \in 1..Len(schema.required) : Absent(schema.required[i]))
    => /\ ~result.ok
       /\ result.args = <<>>
       /\ emitted = <<>>
       /\ result.error = MissingPrefix \o schema.required[FirstAbsent]

C1_Witness ==
  /\ Called
  /\ Len(schema.required) = 2
  /\ ~Absent(schema.required[1])
  /\ Absent(schema.required[2])
  /\ result.error = MissingPrefix \o <<"m", "_", "v">>

\* the entries whose normalized key is an array property and whose value is no list
Offenders ==
  {i \in 1..Len(params) :
     /\ PropType(schema, ReplaceAll(params[i].k, "-", "_")) = "array"
     /\ params[i].v.t # "array"}

MustBeArrayText == SubSeq(MustBeArray, 1, 18)

\* C2: with every required parameter present, a supplied parameter whose
\* normalized name is an array property and whose value is no list makes
\* buildCommandArgs throw "parameter '<key>' must be an array", naming the first
\* such supplied key, and return no arguments.
C2_NonListArrayFails ==
  /\ Called
  /\ \A i \in 1..Len(schema.required) : ~Absent(schema.required[i])
  /\ Offenders # {}
  => /\ ~result.ok
     /\ result.args = <<>>
     /\ emitted = <<>>
     /\ StartsWith(result.error,
                   ParamPrefix \o params[Least(Offenders)].k \o MustBeArrayText)

C2_Witness ==
  /\ Called
  /\ Cardinality(Offenders) = 2
  /\ params[Least(Offenders)].k = <<"m", "-", "v">>
  /\ StartsWith(result.error, ParamPrefix \o <<"m", "-", "v">> \o MustBeArrayText)

\* the blueprint holds a required array placeholder that is given the empty list
EmptyRequiredArray ==
  \E i \in WordIndexes : \E j \in 1..Len(bp.shellWords[i]) :
    LET token == bp.shellWords[i][j]
    IN /\ IsField(token) /\ token.required /\ token.isArray
       /\ findParamValue(objectPrototype, params, token.name).exists
       /\ findParamValue(objectPrototype, params, token.name).value = Arr(<<>>)

\* C3: a required array placeholder {name...} that is given the empty list makes
\* buildCommandArgs fail.
C3_EmptyRequiredArrayFails == Called /\ EmptyRequiredArray => ~result.ok

\* the value rendering finds for a field token
Supplied(token) == findParamValue(objectPrototype, params, token.name)

NonEmptyString(value) == value.t = "string" /\ value.s # <<>>

\* s contains p as a contiguous run of characters
Contains(s, p) == \E i \in 0..(Len(s) - Len(p)) : SubSeq(s, i + 1, i + Len(p)) = p

\* string contents a shell would interpret
ShellStrings ==
  { <<"$", "(", ";", ")", " ", "'", "&", "|", "\"">> }

\* the parameter maps that differ from p only in the contents of non-empty strings
RECURSIVE Variants(_)
Variants(p) ==
  IF p = <<>> THEN {<<>>}
  ELSE LET heads == IF NonEmptyString(Head(p).v)
                    THEN {Head(p)} \cup {[k |-> Head(p).k, v |-> Str(s)] : s \in ShellStrings}
                    ELSE {Head(p)}
       IN {<<e>> \o rest : e \in heads, rest \in Variants(Tail(p))}

\* the entry of the parameter map a field is given: the first of the keys tried
\* for the name that the map itself holds
InMap(token) ==
  LET name == token.name
      normalized == ReplaceAll(name, "-", "_")
      dashed == ReplaceAll(name, "_", "-")
      own(key) == params[CHOOSE e \in 1..Len(params) : params[e].k = key].v
  IN IF HasOwn(params, name) THEN [exists |-> TRUE, value |-> own(name)]
     ELSE IF HasOwn(params, normalized) THEN [exists |-> TRUE, value |-> own(normalized)]
     ELSE IF Includes(name, "_") /\ HasOwn(params, dashed)
       THEN [exists |-> TRUE, value |-> own(dashed)]
     ELSE [exists |-> FALSE, value |-> Undefined]

\* a placeholder without the ... suffix that is not a flag
Scalar(token) == IsField(token) /\ ~token.isArray /\ token.originalFlag = <<>>

\* the contents of non-empty strings change neither the outcome nor the
\* number of arguments of any word
SameLengthForVariants ==
  \A q \in Variants(params) \ {params} :
    LET other == buildCommandArgs(objectPrototype, bp, q)
        pushed == WordResults(objectPrototype, bp, q)
    IN /\ other.ok = result.ok
       /\ Len(other.args) = Len(result.args)
       /\ result.ok =>
            \A i \in WordIndexes : Len(pushed[i]) = Len(emitted[i])

\* C4 as stated: a non-empty string supplied for a scalar field appears
\* verbatim inside exactly one argument for every occurrence of the field,
\* and parameter maps that differ only in the contents of non-empty strings
\* give argument lists of the same length.
C4_StringValuesAnyField ==
  Called =>
    /\ result.ok =>
         \A i \in WordIndexes : \A j \in 1..Len(bp.shellWords[i]) :
           LET token == bp.shellWords[i][j]
           IN Scalar(token) /\ InMap(token).exists /\ NonEmptyString(InMap(token).value)
              => /\ Len(emitted[i]) = 1
                 /\ Contains(emitted[i][1], InMap(token).value.s)
    /\ SameLengthForVariants

\* C4: a non-empty string supplied for a string-typed field appears verbatim
\* inside the single argument its word emits, and parameter maps that differ
\* only in the contents of non-empty strings give argument lists of the same
\* length (or fail alike).
C4_StringValuesNeverSplit ==
  Called =>
    /\ result.ok =>
         \A i \in WordIndexes : \A j \in 1..Len(bp.shellWords[i]) :
           LET token == bp.shellWords[i][j]
           IN IsField(token) /\ TypeOfField(token) = "string"
              /\ Supplied(token).exists /\ NonEmptyString(Supplied(token).value)
              => /\ Len(emitted[i]) = 1
                 /\ Contains(emitted[i][1], Supplied(token).value.s)
    /\ SameLengthForVariants

C4_Witness ==
  /\ Rendered
  /\ args = <<BaseCommand, <<"a", "{", "x", "}">> >>
  /\ params = <<[k |-> <<"x">>, v |-> Str(<<"a", " ", "b">>)]>>
  /\ result.args = <<BaseCommand, <<"a", "a", " ", "b">> >>
  /\ Cardinality(Variants(params)) = 2

\* the word consists only of optional field tokens
OnlyOptionalFields(i) ==
  \A j \in 1..Len(bp.shellWords[i]) :
    IsField(bp.shellWords[i][j]) /\ ~bp.shellWords[i][j].required

\* a meaningful value: non-empty string, true, non-empty list, or any other
\* value that is not null
Meaningful(value) ==
  \/ value.t = "string" /\ value.s # <<>>
  \/ value.t = "boolean" /\ value.b
  \/ value.t = "array" /\ value.a # <<>>
  \/ value.t \notin {"string", "boolean", "array", "null", "undefined"}

NothingMeaningful(i) ==
  \A j \in 1..Len(bp.shellWords[i]) :
    LET found == InMap(bp.shellWords[i][j])
    IN ~found.exists \/ ~Meaningful(found.value)

\* C5: a word of optional fields only, none of which has a meaningful value
\* in the parameter map, emits nothing and the result is exactly what the
\* other words emit, in order; a word that is one optional scalar field with
\* a non-empty string value emits exactly that value.
C5_OptionalWordVanishes ==
  Rendered =>
    \A i \in WordIndexes :
      OnlyOptionalFields(i) =>
        /\ NothingMeaningful(i) =>
             /\ emitted[i] = <<>>
             /\ result.args =
                  Flatten([k \in 1..(Len(emitted) - 1) |->
                             IF k < i THEN emitted[k] ELSE emitted[k + 1]])
        /\ LoneField(i) /\ Scalar(bp.shellWords[i][1])
           /\ InMap(bp.shellWords[i][1]).exists
           /\ NonEmptyString(InMap(bp.shellWords[i][1]).value)
           => emitted[i] = <<InMap(bp.shellWords[i][1]).value.s>>

\* the word is exactly one boolean-flag placeholder
LoneFlag(i) == LoneField(i) /\ bp.shellWords[i][1].originalFlag # <<>>

FlagRendering(i) ==
  LET token == bp.shellWords[i][1]
      found == Supplied(token)
  IN /\ found.exists /\ found.value = Bool(TRUE) => emitted[i] = <<token.originalFlag>>
     /\ ~found.exists \/ found.value = Bool(FALSE) => emitted[i] = <<>>

\* C6 as stated, for any blueprint: a lone flag word emits its original spelling
\* when the value is true and nothing when it is false or absent.
C6_FlagAnyBlueprint ==
  Rendered => \A i \in WordIndexes : LoneFlag(i) => FlagRendering(i)

\* C6: a lone flag word whose schema property is boolean (the flag is the first
\* occurrence of its name) emits its original spelling when the value is true
\* and nothing when it is false or absent.
C6_FlagOfBooleanProperty ==
  Rendered =>
    \A i \in WordIndexes :
      LoneFlag(i) /\ TypeOfField(bp.shellWords[i][1]) = "boolean" => FlagRendering(i)

C6_Witness ==
  /\ Rendered
  /\ args = <<BaseCommand, <<"[", "-", "-", "m", "-", "v", "]">>, <<"{", "m", "-", "v", "}">> >>
  /\ params = <<[k |-> <<"m", "_", "v">>, v |-> Bool(TRUE)]>>
  /\ emitted[2] = << <<"-", "-", "m", "-", "v">> >>

\* the word is exactly one array placeholder
LoneArray(i) == LoneField(i) /\ bp.shellWords[i][1].isArray

ArrayRendering(i) ==
  LET found == Supplied(bp.shellWords[i][1])
  IN /\ found.exists /\ found.value.t = "array" /\ found.value.a # <<>>
        => emitted[i] = found.value.a
     /\ ~found.exists \/ found.value = Arr(<<>>) => emitted[i] = <<>>

\* C7 as stated, for any word that is an array placeholder.
C7_ArrayAnyBlueprint ==
  Rendered => \A i \in WordIndexes : LoneArray(i) => ArrayRendering(i)

\* C7: a lone array placeholder whose schema property is array-typed emits one
\* argument per element of a non-empty list, in order, and nothing when the list
\* is empty or the parameter is absent.
C7_ArrayOfArrayProperty ==
  Rendered =>
    \A i \in WordIndexes :
      LoneArray(i) /\ TypeOfField(bp.shellWords[i][1]) = "array" => ArrayRendering(i)

C7_Witness ==
  /\ Rendered
  /\ args = <<BaseCommand, <<"[", "m", "-", "v", ".", ".", ".", "]">>, <<"a">> >>
  /\ params = <<[k |-> <<"m", "_", "v">>, v |-> Arr(<< <<"a">>, <<"b", " ", "c">> >>)]>>
  /\ result.args = <<BaseCommand, <<"a">>, <<"b", " ", "c">>, <<"a">> >>

\* the word mixes literal text with at least one placeholder
MixedWord(i) ==
  /\ \E j \in 1..Len(bp.shellWords[i]) : IsText(bp.shellWords[i][j])
  /\ \E j \in 1..Len(bp.shellWords[i]) : IsField(bp.shellWords[i][j])

AllStrings == \A e \in 1..Len(params) : params[e].v.t = "string"

\* text tokens and the string values the map supplies, concatenated in token
\* order; a field without an entry in the map contributes nothing
RECURSIVE Concatenation(_)
Concatenation(tokens) ==
  IF tokens = <<>> THEN <<>>
  ELSE (IF IsText(Head(tokens)) THEN Head(tokens).value
        ELSE IF InMap(Head(tokens)).exists THEN InMap(Head(tokens)).value.s
        ELSE <<>>)
       \o Concatenation(Tail(tokens))

\* C8: with a map of string values, a word that mixes literal text with
\* placeholders emits exactly one argument, the in-order concatenation of its
\* text and of the values supplied for its fields (nothing for an absent or
\* empty one).
C8_MixedWordConcatenates ==
  Rendered /\ AllStrings =>
    \A i \in WordIndexes :
      MixedWord(i) => emitted[i] = <<Concatenation(bp.shellWords[i])>>

\* the keys tried for a field name, in order
LookupKeys(name) ==
  <<name, ReplaceAll(name, "-", "_")>>
  \o (IF Includes(name, "_") THEN <<ReplaceAll(name, "_", "-")>> ELSE <<>>)

PresentKeys(name) ==
  {c \in 1..Len(LookupKeys(name)) : HasKey(objectPrototype, params, LookupKeys(name)[c])}

FirstPresent(name) == LookupKeys(name)[Least(PresentKeys(name))]

\* C9: the lookup for a field finds the value of the first present key among
\* the exact name, the name with dashes as underscores and (for a name with an
\* underscore) the name with underscores as dashes; a lone required scalar
\* field renders that value.
C9_LookupOrder ==
  Called =>
    \A i \in WordIndexes : \A j \in 1..Len(bp.shellWords[i]) :
      LET token == bp.shellWords[i][j]
          supplied == Supplied(token)
          present == PresentKeys(token.name)
          first == IF present # {} THEN Get(objectPrototype, params, FirstPresent(token.name))
                   ELSE Undefined
      IN IsField(token) =>
           /\ supplied.exists = (present # {})
           /\ present # {} => supplied.value = first
           /\ /\ result.ok /\ LoneField(i) /\ token.required
              /\ TypeOfField(token) # "array"
              /\ NonEmptyString(first)
              => emitted[i] = <<first.s>>

C9_Witness ==
  /\ Rendered
  /\ args = <<BaseCommand, <<"{", "m", "-", "v", "}">> >>
  /\ params = <<[k |-> <<"m", "-", "v">>, v |-> Str(<<"a", " ", "b">>)],
                [k |-> <<"m", "_", "v">>, v |-> Str(<<>>)]>>
  /\ result.args = <<BaseCommand, <<"a", " ", "b">> >>

\* the closer of the earliest opening marker of a word, <<>> without a marker
MarkerPositions(word) == {i \in 1..Len(word) : word[i] \in {"{", "["}}

EarliestMarker(word) == Least(MarkerPositions(word))

\* the earliest opening marker of the word has no closer after it
UnclosedMarker(word) ==
  /\ MarkerPositions(word) # {}
  /\ LET m == EarliestMarker(word)
         double == word[m] = "{" /\ m < Len(word) /\ word[m + 1] = "{"
     IN IF word[m] = "["
          THEN \A i \in (m + 1)..Len(word) : word[i] # "]"
        ELSE IF double
          THEN \A i \in (m + 2)..(Len(word) - 1) : ~(word[i] = "}" /\ word[i + 1] = "}")
        ELSE \A i \in (m + 1)..Len(word) : word[i] # "}"

\* C10: fromArgs succeeds whenever the first element is not blank, and a word
\* whose earliest opening marker is never closed is one text token holding the
\* word, rendered unchanged.
C10_MalformedStaysLiteral ==
  pc # "start" =>
    /\ Len(args) > 0 /\ (\E c \in 1..Len(args[1]) : args[1][c] \notin WhiteSpace)
       => bp.ok
    /\ bp.ok =>
         \A i \in WordIndexes :
           UnclosedMarker(args[i]) =>
             /\ bp.shellWords[i] = <<TextToken(args[i])>>
             /\ Rendered => emitted[i] = <<args[i]>>

C10_Witness ==
  /\ Rendered
  /\ args = <<BaseCommand, <<"{", "{", "x", "{", "x", "}">> >>
  /\ params = <<[k |-> <<"x">>, v |-> Str(<<"a", " ", "b">>)]>>
  /\ result.args = args

\* every token of every word is literal text
LiteralCommand == \A i \in WordIndexes : \A j \in 1..Len(bp.shellWords[i]) :
                    IsText(bp.shellWords[i][j])

\* C11: a blueprint whose words hold no recognized placeholder renders, for
\* every parameter map, to exactly the argument vector it was built from,
\* empty words included.
C11_LiteralRoundTrip ==
  Called /\ LiteralCommand => result.ok /\ result.args = args

C11_Witness ==
  /\ Called
  /\ LiteralCommand
  /\ args = << <<" ", "c", " ">>, <<>>, <<"a", "{", "}">> >>
  /\ Len(params) = 2
  /\ result.args = args

\* the call fails one of the two validation loops
ValidationFails ==
  \/ MissingRequired(objectPrototype, schema, params) # {}
  \/ NotAnArray(schema, params) # {}

\* some supplied value is one String() cannot convert
Unconvertible == \E i \in 1..Len(params) : ToStringThrows(params[i].v)

\* C12 as stated: buildCommandArgs returns a complete list or fails without
\* producing arguments, and no failure occurs once word rendering has
\* started: every failure is one of the two validation failures.
C12_FailsOnlyInValidation ==
  Called =>
    /\ ~result.ok => result.args = <<>> /\ emitted = <<>>
    /\ ~result.ok => ValidationFails

\* C12, amended: buildCommandArgs returns the complete list or fails without
\* producing arguments; both validation loops run before the first word is
\* rendered, so a call that fails validation reports the validation failure
\* whatever its values are; a failure after the validation is the TypeError
\* of a value that cannot be converted to a string, and it too leaves no
\* arguments.
C12_AllOrNothing ==
  Called =>
    /\ ~result.ok => result.args = <<>> /\ emitted = <<>>
    /\ result.ok => result.args = Flatten(emitted) /\ ~ValidationFails
    /\ MissingRequired(objectPrototype, schema, params) # {} =>
         ~result.ok /\ StartsWith(result.error, MissingPrefix)
    /\ MissingRequired(objectPrototype, schema, params) = {} /\ NotAnArray(schema, params) # {} =>
         ~result.ok /\ StartsWith(result.error, ParamPrefix)
    /\ ~result.ok /\ ~ValidationFails =>
         result.error = CannotConvert /\ Unconvertible

C12_Witness ==
  /\ Called
  /\ ~result.ok
  /\ ~ValidationFails
  /\ result.error = CannotConvert
  /\ Len(bp.shellWords) = 3
  /\ bp.shellWords[2] = <<TextToken(<<"a">>)>>
  /\ result.args = <<>>

\* the field tokens of the blueprint, in word/token order
FieldTokens == SelectSeq(Flatten(bp.shellWords), IsField)

\* positions in FieldTokens of the occurrences of a normalized name
Occurrences(key) ==
  {k \in 1..Len(FieldTokens) : normalizeFieldName(FieldTokens[k].name) = key}

RequiredOccurrences(key) == {k \in Occurrences(key) : FieldTokens[k].required}

Registered == pc \in {"serving", "called"}

\* C13: every name of the required list is a key of properties, the list
\* holds no name twice, and its names are in the order in which they were
\* first met as required.
C13_RequiredAreProperties ==
  Registered =>
    /\ \A i \in 1..Len(schema.required) :
         PropIndex(schema.properties, schema.required[i]) # 0
    /\ \A i, j \in 1..Len(schema.required) :
         i < j =>
           /\ schema.required[i] # schema.required[j]
           /\ Least(RequiredOccurrences(schema.required[i]))
                < Least(RequiredOccurrences(schema.required[j]))

\* the type the claim derives from a field token
DerivedType(token) ==
  IF token.originalFlag # <<>> THEN "boolean"
  ELSE IF token.isArray THEN "array" ELSE "string"

\* the occurrence is the first one of its normalized name
FirstOccurrence(k) ==
  k = Least(Occurrences(normalizeFieldName(FieldTokens[k].name)))

\* C14: the first occurrence of each field name has a property under the
\* name with dashes replaced by underscores, no key holds a dash, the type is
\* boolean for a flag, else array of string for a name with the ... suffix,
\* else string, and the key is in required exactly when that occurrence is a
\* required placeholder.
C14_FirstOccurrenceDecides ==
  Registered =>
    /\ \A i \in 1..Len(schema.properties) : ~Includes(schema.properties[i].name, "-")
    /\ \A k \in 1..Len(FieldTokens) :
         FirstOccurrence(k) =>
           /\ PropIndex(schema.properties, normalizeFieldName(FieldTokens[k].name)) # 0
           /\ PropType(schema, normalizeFieldName(FieldTokens[k].name))
                = DerivedType(FieldTokens[k])
           /\ InSeq(normalizeFieldName(FieldTokens[k].name), schema.required)
                <=> FieldTokens[k].required

\* C15: a normalized field name is in the required list if and only if at
\* least one of its occurrences is a required placeholder, whatever the order
\* of the occurrences.
C15_RequiredIfAnyOccurrence ==
  Registered =>
    /\ \A k \in 1..Len(FieldTokens) :
         InSeq(normalizeFieldName(FieldTokens[k].name), schema.required)
           <=> RequiredOccurrences(normalizeFieldName(FieldTokens[k].name)) # {}
    /\ \A i \in 1..Len(schema.required) : Occurrences(schema.required[i]) # {}

\* x occurs as optional, then required, then optional again
C15_Witness ==
  /\ Registered
  /\ Len(FieldTokens) = 3
  /\ Occurrences(<<"x">>) = {1, 2, 3}
  /\ RequiredOccurrences(<<"x">>) = {2}
  /\ schema.required = << <<"x">> >>

\* the occurrences of key after its first one that carry a description
DescribedLater(key) ==
  {k \in Occurrences(key) :
     k > Least(Occurrences(key)) /\ FieldTokens[k].description # <<>>}

\* an occurrence before position k stored a description on Object.prototype
ProtoDescribedBefore(k) ==
  \E j \in 1..(k - 1) :
    /\ normalizeFieldName(FieldTokens[j].name) = ProtoName
    /\ FieldTokens[j].description # <<>>

\* the description a property without one receives from later occurrences
Backfilled(key) ==
  IF DescribedLater(key) = {} \/ ProtoDescribedBefore(Least(DescribedLater(key)))
  THEN <<>>
  ELSE FieldTokens[Least(DescribedLater(key))].description

\* the property as its first occurrence created it
AsCreated(key) == NewProperty(key, FieldTokens[Least(Occurrences(key))])

\* C16: the type and the items of a property are those derived from the first
\* occurrence of its name; later occurrences leave them alone, leave a
\* description the property has alone, and change a property without
\* description only by giving it the description of the first later
\* occurrence that has one.
C16_FirstOccurrenceKept ==
  Registered =>
    \A i \in 1..Len(schema.properties) :
      /\ Occurrences(schema.properties[i].name) # {}
      /\ schema.properties[i].type = AsCreated(schema.properties[i].name).type
      /\ schema.properties[i].items = AsCreated(schema.properties[i].name).items
      /\ schema.properties[i].description =
           IF AsCreated(schema.properties[i].name).description # <<>>
           THEN AsCreated(schema.properties[i].name).description
           ELSE Backfilled(schema.properties[i].name)

\* x is created as a string without description, receives "e" from its second
\* occurrence, and keeps type and description when an array occurrence follows
C16_Witness ==
  /\ Registered
  /\ args = <<BaseCommand, <<"{", "x", "}">>, <<"{", "x", "#", "e", "}">>,
              <<"{", "x", ".", ".", ".", "}">> >>
  /\ schema.properties =
       <<[name |-> <<"x">>, type |-> "string", items |-> "", description |-> <<"e">>]>>

\* C17: generateInputSchema keeps no state: the schema the handler of a tool
\* call generates is the schema that was generated when the tool was
\* registered (same properties, types, descriptions and required list).
C17_SchemaRegenerated ==
  Called => inputSchema = schema

UpperLetters ==
  <<"A", "B", "C", "D", "E", "F", "G", "H", "I", "J", "K", "L", "M", "N", "O", "P", "Q", "R", "S", "T", "U", "V", "W", "X", "Y", "Z">>
LowerLetters ==
  <<"a", "b", "c", "d", "e", "f", "g", "h", "i", "j", "k", "l", "m", "n", "o", "p", "q", "r", "s", "t", "u", "v", "w", "x", "y", "z">>

\* the string with its upper-case letters replaced by lower-case ones
ToLowerCase(s) ==
  [i \in 1..Len(s) |->
     IF \E j \in 1..26 : UpperLetters[j] = s[i]
     THEN LowerLetters[CHOOSE j \in 1..26 : UpperLetters[j] = s[i]]
     ELSE s[i]]

SameParameter(a, b) == ToLowerCase(a) = ToLowerCase(b)

\* C20: names that differ in letter case only denote one parameter: they
\* yield one schema property, and a value supplied under one spelling is
\* found for a field written in the other.
C20_CaseInsensitive ==
  /\ Registered =>
       \A i, j \in 1..Len(schema.properties) :
         SameParameter(schema.properties[i].name, schema.properties[j].name) => i = j
  /\ Called =>
       \A k \in 1..Len(FieldTokens) : \A i \in 1..Len(params) :
         SameParameter(params[i].k, FieldTokens[k].name)
           => findParamValue(objectPrototype, params, FieldTokens[k].name).exists

\* the string is empty or consists of white space only
Blank(s) == \A i \in 1..Len(s) : s[i] \in WhiteSpace

\* C18: fromArgs fails with "no command provided" for an empty argument vector
\* and with "empty command provided" for an empty or blank first element, and
\* produces no blueprint then; otherwise baseCommand is the first element as
\* it was given.
C18_CommandChecked ==
  pc # "input" =>
    /\ Len(args) = 0 =>
         /\ pc = "thrown" /\ ~bp.ok /\ bp.shellWords = <<>>
         /\ bp.error = "cannot create blueprint: no command provided"
    /\ Len(args) > 0 /\ Blank(args[1]) =>
         /\ pc = "thrown" /\ ~bp.ok /\ bp.shellWords = <<>>
         /\ bp.error = "cannot create blueprint: empty command provided"
    /\ Len(args) > 0 /\ ~Blank(args[1]) =>
         /\ pc = "returned" /\ bp.ok /\ bp.baseCommand = args[1]

C18_Witness ==
  /\ pc = "returned"
  /\ args[1] = <<" ", "c", " ">>
  /\ bp.baseCommand = <<" ", "c", " ">>

\* the word holds no opening marker
NoMarker(word) == ~Includes(word, "{") /\ ~Includes(word, "[")

\* C19: a blueprint has one word per argument, in the order of the arguments,
\* the command's own word first; every word holds at least one token, and a
\* word in which nothing is found is one text token holding the word.
C19_OneWordPerArgument ==
  bp.ok =>
    /\ Len(bp.shellWords) = Len(args)
    /\ \A i \in WordIndexes :
         /\ Len(bp.shellWords[i]) >= 1
         /\ NoMarker(args[i]) => bp.shellWords[i] = <<TextToken(args[i])>>
         /\ (\A j \in 1..Len(bp.shellWords[i]) : IsText(bp.shellWords[i][j]))
            => Join([j \in 1..Len(bp.shellWords[i]) |-> bp.shellWords[i][j].value])
               = args[i]

C19_Witness ==
  /\ bp.ok
  /\ Len(args) = 3
  /\ args[2] = <<>>
  /\ bp.shellWords[2] = <<TextToken(<<>>)>>
  /\ Len(bp.shellWords[3]) = 2

\* the content has a name: the text before its first # is not blank
HasName(content) ==
  IF IndexOf(content, <<"#">>) = -1 THEN Trim(content) # <<>>
  ELSE Trim(Slice(content, 0, IndexOf(content, <<"#">>))) # <<>>

\* the text leaves no opening marker outside a placeholder
Settled(text) ==
  \A j \in 1..Len(tokenizeShellWord(text)) :
    IsText(tokenizeShellWord(text)[j]) => NoMarker(tokenizeShellWord(text)[j].value)

\* the words are pre{X}post and pre{{X}}post
Twins(first, second, pre, x, post) ==
  /\ first = pre \o Single(x) \o post
  /\ second = pre \o Double(x) \o post

\* the schema of the command followed by one word
SchemaOfWord(word) ==
  generateInputSchemaOn(fromArgs(<<args[1], word>>), PristinePrototype).schema

\* the two words are read alike: same tokens, same schema, same arguments
ReadAlike ==
  /\ bp.shellWords[2] = bp.shellWords[3]
  /\ SchemaOfWord(args[2]) = SchemaOfWord(args[3])
  /\ Rendered => emitted[2] = emitted[3]

\* C21 as stated: for every content X without brace or bracket, {X} and
\* {{X}} at the same position of a word yield identical tokens, the same
\* schema and the same rendered arguments.
C21_BraceFormsEquivalent ==
  bp.ok /\ Len(args) = 3 =>
    \A pre \in Pres, x \in Contents, post \in PostsUpTo(MaxPost) :
      Twins(args[2], args[3], pre, x, post) => ReadAlike

\* C21, amended: for every content X without brace or bracket that has a
\* name, {X} and {{X}} yield identical tokens, the same schema and the same
\* rendered arguments at every position of a word where the text before the
\* placeholder leaves no opening marker outside a placeholder.
C21_NamedBraceFormsEquivalent ==
  bp.ok /\ Len(args) = 3 =>
    \A pre \in Pres, x \in Contents, post \in PostsUpTo(MaxPost) :
      Twins(args[2], args[3], pre, x, post) /\ HasName(x) /\ Settled(pre)
        => /\ ReadAlike
           /\ \E j \in 1..Len(bp.shellWords[2]) :
                /\ IsField(bp.shellWords[2][j])
                /\ bp.shellWords[2][j].required
                /\ bp.shellWords[2][j].originalFlag = <<>>

C21_Witness ==
  /\ Rendered
  /\ args[2] = <<"a", "{", "x", "#", "d", "}", "{", "y", "}">>
  /\ args[3] = <<"a", "{", "{", "x", "#", "d", "}", "}", "{", "y", "}">>
  /\ Len(bp.shellWords[2]) = 3
  /\ bp.shellWords[2] = bp.shellWords[3]
  /\ emitted[3] = << <<"a", "v", "w">> >>

\* the spans without a name, in the three delimiter forms
NamelessSpans ==
  UNION {{Single(x), Double(x), Bracket(x)} : x \in {c \in Contents : ~HasName(c)}}

\* the tokens of a piece of a word, none for the empty piece
TokensOf(text) == IF text = <<>> THEN <<>> ELSE tokenizeShellWord(text)

\* C22: a delimited span without a name yields no field: the span with its
\* delimiters is one text token, what follows is tokenized as it is on its
\* own, the word adds no schema property for the span and renders with the
\* span unchanged.
C22_NamelessSpanIsText ==
  bp.ok =>
    \A i \in 2..Len(args) :
      \A pre \in Pres, span \in NamelessSpans, post \in PostsUpTo(MaxPost) :
        args[i] = pre \o span \o post /\ Settled(pre) =>
          /\ bp.shellWords[i] = TokensOf(pre) \o <<TextToken(span)>> \o TokensOf(post)
          /\ pre = <<>> /\ post = <<>> =>
               /\ SchemaOfWord(args[i]).properties = <<>>
               /\ Len(args) = 2 /\ Registered => schema.properties = <<>>
          /\ Rendered => /\ Len(emitted[i]) = 1
                          /\ Contains(emitted[i][1], span)

C22_Witness ==
  /\ Rendered
  /\ args[2] = <<"a", "{", "#", "d", "}", "{", "y", "}">>
  /\ bp.shellWords[2] =
       <<TextToken(<<"a">>), TextToken(<<"{", "#", "d", "}">>), FieldToken(<<"y">>, <<>>, TRUE, FALSE, <<>>)>>
  /\ emitted[2] = <<<<"a", "{", "#", "d", "}", "w">>>>

\* the word is exactly one required placeholder without the ... suffix
LoneRequiredScalar(i) ==
  /\ LoneField(i)
  /\ bp.shellWords[i][1].required
  /\ ~bp.shellWords[i][1].isArray

\* C23: after validation succeeded, every word that is a lone required
\* scalar placeholder contributes exactly one argument, whatever value was
\* supplied for it.
C23_RequiredScalarRenders ==
  Rendered =>
    \A i \in WordIndexes : LoneRequiredScalar(i) => Len(emitted[i]) = 1

\* what a token contributes to the concatenation of its word
StringOf(token) ==
  IF IsText(token) THEN token.value
  ELSE IF Supplied(token).exists THEN valueToString(Supplied(token).value)
  ELSE <<>>

Concatenated(i) ==
  Join([j \in 1..Len(bp.shellWords[i]) |-> StringOf(bp.shellWords[i][j])])

\* the word is rendered by the concatenation loop: it is not skipped by the
\* first pass and is not a lone array-typed or lone optional field
GeneralPath(i) ==
  /\ HasRequiredContent(bp.shellWords[i])
     \/ ~AllOptionalFieldsEmpty(objectPrototype, bp.shellWords[i], params)
  /\ ~(LoneField(i) /\ TypeOfField(bp.shellWords[i][1]) = "array")
  /\ ~(LoneField(i) /\ ~bp.shellWords[i][1].required)

HasText(i) == \E j \in 1..Len(bp.shellWords[i]) : IsText(bp.shellWords[i][j])

\* C24 as stated: in the concatenation path a word emits its concatenation as
\* one argument when it is not empty and emits nothing when it is empty, the
\* word that is one empty text token included.
C24_EmptyConcatenationDropped ==
  Rendered =>
    \A i \in WordIndexes :
      GeneralPath(i) =>
        emitted[i] = IF Concatenated(i) # <<>> THEN <<Concatenated(i)>> ELSE <<>>

\* C24, amended: in the concatenation path a word emits its concatenation as
\* one argument when some part was pushed, that is when the word holds a text
\* token or a field whose value converts to a non-empty string; a word of
\* fields that are all absent or empty emits nothing, and the word that is
\* one empty text token emits one empty argument.
C24_EmittedWhenPartPushed ==
  Rendered =>
    \A i \in WordIndexes :
      GeneralPath(i) =>
        /\ emitted[i] = IF HasText(i) \/ Concatenated(i) # <<>>
                        THEN <<Concatenated(i)>> ELSE <<>>
        /\ HasText(i) /\ Concatenated(i) = <<>> => bp.shellWords[i] = <<TextToken(<<>>)>>

\* the empty word emits an empty argument, the required field with the empty
\* string after it emits nothing
C24_Witness ==
  /\ Rendered
  /\ args = <<BaseCommand, <<>>, <<"{", "x", "}">> >>
  /\ params = <<[k |-> <<"x">>, v |-> Str(<<>>)]>>
  /\ emitted = << <<BaseCommand>>, << <<>> >>, <<>> >>

\* an iteration of the scan loop has run: from and templateStart are its
Iterated ==
  /\ scan.at # "idle"
  /\ scan.pos > 0 \/ (scan.at # "loop" /\ scan.word # <<>>)

\* what the last iteration had before it
Remaining == SliceFrom(scan.word, scan.from)

\* offset in Remaining of its first opening marker
MarkerOffset == EarliestMarker(Remaining) - 1

DoubleAtMarker ==
  /\ Remaining[MarkerOffset + 1] = "{"
  /\ MarkerOffset + 2 <= Len(Remaining)
  /\ Remaining[MarkerOffset + 2] = "{"

ExpectedType ==
  IF Remaining[MarkerOffset + 1] = "[" THEN "optional"
  ELSE IF DoubleAtMarker THEN "required_double" ELSE "required_single"

ExpectedCloser ==
  IF Remaining[MarkerOffset + 1] = "[" THEN <<"]">>
  ELSE IF DoubleAtMarker THEN <<"}", "}">> ELSE <<"}">>

\* the closer stands at offset e of the word
CloserAt(e) == Slice(scan.word, e, e + Len(ExpectedCloser)) = ExpectedCloser

\* C25: the placeholder start taken at a scan position is the opening marker
\* with the smallest offset at or after it; a brace followed by a brace is
\* read as {{, whose closer is }}, a lone brace as {, whose closer is },
\* and the span ends behind the first occurrence of that closer.
C25_EarliestMarkerDoublePreferred ==
  Iterated =>
    /\ MarkerPositions(Remaining) = {} => ~scan.templateStart.found
    /\ MarkerPositions(Remaining) # {} /\ scan.templateStart.found =>
         /\ scan.templateStart.start = scan.from + MarkerOffset
         /\ scan.templateStart.type = ExpectedType
         /\ scan.templateStart.endMarker = ExpectedCloser
         /\ CloserAt(scan.templateStart.end - Len(ExpectedCloser))
         /\ \A e \in scan.templateStart.start..(scan.templateStart.end - Len(ExpectedCloser) - 1) :
              ~CloserAt(e)
    /\ MarkerPositions(Remaining) # {} /\ ~scan.templateStart.found =>
         \A e \in (scan.from + MarkerOffset)..Len(scan.word) : ~CloserAt(e)

\* in {{} the double brace is chosen and finds no }}, although { } is there
C25_Witness ==
  /\ scan.at = "done"
  /\ scan.word = <<"{", "{", "}">>
  /\ scan.from = 0
  /\ ~scan.templateStart.found
  /\ scan.tokens = <<TextToken(<<"{", "{", "}">>)>>

\* the tokens the scan had before its last iteration
TokensBefore ==
  IF scan.from = 0 THEN <<>> ELSE tokenizeShellWord(Slice(scan.word, 0, scan.from))

\* C26: when the opening marker chosen at the scan position has no closer
\* the scan of the word ends: the word from the scan position on is one
\* text token behind the tokens already there, and nothing behind the
\* marker becomes a field.
C26_UnclosedMarkerEndsScan ==
  Iterated /\ MarkerPositions(Remaining) # {} /\ ~scan.templateStart.found =>
    /\ scan.at \in {"return", "done"}
    /\ scan.pos = scan.from
    /\ scan.tokens = Append(TokensBefore, TextToken(Remaining))

\* {a}[{a}: the field a is kept, [{a} is text
C26_Witness ==
  /\ scan.at = "done"
  /\ scan.word = <<"{", "a", "}", "[", "{", "a", "}">>
  /\ scan.from = 3
  /\ ~scan.templateStart.found
  /\ Len(scan.tokens) = 2
  /\ IsField(scan.tokens[1]) /\ scan.tokens[1].name = <<"a">>
  /\ scan.tokens[2] = TextToken(<<"[", "{", "a", "}">>)

\* C27: tokenizing a word terminates: the scan position never passes the end
\* of the word, an iteration that does not end the scan moves the position
\* forward by at least two characters, and a scan that has begun returns
\* its tokens.
C27_ScanTerminates ==
  /\ [](scan.pos <= Len(scan.word))
  /\ [][scan.at = "loop" /\ scan'.at = "loop" => scan'.pos >= scan.pos + 2]_vars
  /\ (scan.at = "loop") ~> (scan.at = "done" /\ scan.tokens = tokenizeShellWord(scan.word))

\* a{}[a] takes two iterations, the first moves the position by three (the
\* text a and the span {}), the second to the end of the word
C27_Witness ==
  /\ scan.at = "done"
  /\ scan.word = <<"a", "{", "}", "[", "a", "]">>
  /\ scan.from = 3
  /\ scan.pos = 6
  /\ Len(scan.tokens) = 3
  /\ scan.tokens[2] = TextToken(<<"{", "}">>)
  /\ IsField(scan.tokens[3])

\* C28: every field token has a name that is not empty, and no property of
\* the schema has the empty string as key.
C28_FieldNamesNonEmpty ==
  /\ \A k \in 1..Len(FieldTokens) : FieldTokens[k].name # <<>>
  /\ Registered => \A k \in 1..Len(schema.properties) : schema.properties[k].name # <<>>

\* C29: every successful result of buildCommandArgs is a list that is not
\* empty and whose first element is the base command of the blueprint.
C29_ResultStartsWithBaseCommand ==
  Rendered => result.args # <<>> /\ result.args[1] = bp.baseCommand

\* the required check of the call rejects the name of the token
FailsRequiredCheck(token) ==
  \E i \in MissingRequired(objectPrototype, inputSchema, params) :
    inputSchema.required[i] = normalizeFieldName(token.name)

\* a value stands under the name of the token as the template writes it
SuppliedAsWritten(token) == HasKey(objectPrototype, params, token.name)

\* C30: for every required field, a value supplied under the name as the
\* template writes it passes the required check, and when the required check
\* passes, rendering finds a value for every occurrence of the field.
C30_ValidationAgreesWithRendering ==
  Called =>
    \A k \in 1..Len(FieldTokens) :
      FieldTokens[k].required =>
        /\ SuppliedAsWritten(FieldTokens[k]) => ~FailsRequiredCheck(FieldTokens[k])
        /\ MissingRequired(objectPrototype, inputSchema, params) = {} => Supplied(FieldTokens[k]).exists
====
